---- MODULE Spec2Model ----
(***************************************************************************)
(* Local price-catalog replica of magiccollection-desktop                  *)
(* (src-tauri/src/lib.rs): versioned snapshot/patch application, the       *)
(* compact price-row merge, the state hash and the source syncs.           *)
(*                                                                         *)
(* Modelling conventions                                                   *)
(*  - Option<T> is a sequence of length 0 (None) or 1 (Some(x)); SQL NULL  *)
(*    is None.                                                             *)
(*  - Prices are integers counting cents; a negative integer stands for a  *)
(*    negative (invalid) f64.                                              *)
(*  - Timestamps are naturals; 0 stands for an empty or whitespace-only    *)
(*    timestamp string.  now_iso() returns the variable now; every         *)
(*    now_iso() of one command reads the same instant, and Tick lets time  *)
(*    pass between commands.                                               *)
(*  - The SHA-256 digest is modelled by its input: the dataset name        *)
(*    followed by the formatted lines, i.e. as a collision-free hash.      *)
(*  - A price row carries SQLite's rowid (the largest rowid in the table   *)
(*    plus one at insertion); a query without ORDER BY yields rowid order. *)
(*  - A rusqlite transaction dropped on an early return rolls back.        *)
(*  - A set row is its set_name and updated_at; card and printing rows     *)
(*    are their hashed fields.                                             *)
(*  - conns holds the position of each connection of ConcurrentSpec, in    *)
(*    which apply_catalog_patch runs step by step under SQLite's file      *)
(*    locks; the other specifications run each command as one step.        *)
(***************************************************************************)
EXTENDS Integers, Sequences, FiniteSets, TLC

VARIABLES prices, printings, cards, sets, syncState, datasetVersions,
          patches, applyHistory, now, calls, request, result, before, conns

vars == <<prices, printings, cards, sets, syncState, datasetVersions,
          patches, applyHistory, now, calls, request, result, before, conns>>

-----------------------------------------------------------------------------
(* Bounds of the model *)

MaxOps == 2

MaxClock == 2

MaxQueries == 1

-----------------------------------------------------------------------------
(* Program constants *)

CATALOG_DATASET_DEFAULT == "default_cards"

SCRYFALL_SOURCE_ID == "scryfall_default_cards"

TCGTRACKING_SOURCE_ID == "tcgtracking_tcgplayer"

CK_SOURCE_ID == "ck_buylist"

CONDITION_NM_ID == 1

FINISH_NONFOIL_ID == 1

FINISH_FOIL_ID == 2

-----------------------------------------------------------------------------
(* Option<T> and string helpers *)

None == <<>>

Some(x) == <<x>>

UnwrapOr(o, d) == IF o = None THEN d ELSE o[1]

Coalesce(a, b) == IF a # None THEN a ELSE b

\* let x = value; F(x): the value is computed once
Bind(value, F(_)) == CHOOSE y \in {F(x) : x \in {value}} : TRUE

\* str::trim on the strings the model uses
TrimTable ==
  (" " :> "") @@ (" A" :> "A") @@ (" B" :> "B") @@ (" v2" :> "v2")
  @@ (" Default_Cards" :> "Default_Cards") @@ (" Full" :> "Full")
  @@ (" CK-Sell" :> "CK-Sell")

Trim(s) == IF s \in DOMAIN TrimTable THEN TrimTable[s] ELSE s

\* str::to_lowercase on the strings the model uses
LowerTable ==
  ("A" :> "a") @@ ("B" :> "b") @@ ("Default_Cards" :> "default_cards") @@ ("Full" :> "full")
  @@ ("LEA" :> "lea") @@ ("CK-Sell" :> "ck-sell")

ToLower(s) == IF s \in DOMAIN LowerTable THEN LowerTable[s] ELSE s

\* str::to_uppercase on the strings the model uses
UpperTable == ("lea" :> "LEA") @@ ("leb" :> "LEB")

ToUpper(s) == IF s \in DOMAIN UpperTable THEN UpperTable[s] ELSE s

\* ORDER BY p.id: the printing ids in ascending order
IdOrder == <<"a", "b">>

\* sync-version labels by day number ("v" + yymmdd)
VersionLabels == <<"v1", "v2", "v3", "v4", "v5">>

-----------------------------------------------------------------------------
(* Time and version labels *)

\* the calendar day of each clock instant
DayTable == <<1, 1, 2, 2, 3, 3>>

DayOf(t) == DayTable[t]

sync_version_from_iso(timestamp) == VersionLabels[DayOf(timestamp)]

captured_ymd_from_iso(timestamp) ==
  IF timestamp = 0 THEN None ELSE Some(DayOf(timestamp))

current_captured_ymd(t) == DayOf(t)

captured_ymd_from_sync_version(sync_version) ==
  IF \E d \in 1..Len(VersionLabels) : VersionLabels[d] = sync_version
  THEN Some(CHOOSE d \in 1..Len(VersionLabels) : VersionLabels[d] = sync_version)
  ELSE None

-----------------------------------------------------------------------------
(* The database as one value *)

Db == [prices |-> prices, printings |-> printings, cards |-> cards,
       sets |-> sets, syncState |-> syncState,
       datasetVersions |-> datasetVersions, patches |-> patches,
       applyHistory |-> applyHistory]

EmptyDb == [prices |-> {}, printings |-> <<>>, cards |-> <<>>,
            sets |-> <<>>, syncState |-> <<>>,
            datasetVersions |-> <<>>, patches |-> <<>>,
            applyHistory |-> <<>>]

\* INSERT ... ON CONFLICT(key) DO UPDATE on a table held as a function
Put(table, key, value) ==
  [k \in (DOMAIN table) \cup {key} |-> IF k = key THEN value ELSE table[k]]

normalize_catalog_dataset(dataset) ==
  LET normalized == ToLower(Trim(UnwrapOr(dataset, CATALOG_DATASET_DEFAULT)))
  IN  IF normalized = "" THEN [ok |-> TRUE, value |-> CATALOG_DATASET_DEFAULT]
      ELSE IF normalized # CATALOG_DATASET_DEFAULT
           THEN [ok |-> FALSE, value |-> normalized]
           ELSE [ok |-> TRUE, value |-> normalized]

read_catalog_sync_row(db, dataset) ==
  IF dataset \in DOMAIN db.syncState
  THEN db.syncState[dataset]
  ELSE [current_version |-> None, state_hash |-> None, synced_at |-> None]

count_catalog_records_for_version(db, sync_version) ==
  Cardinality({r.printing_id : r \in
     {x \in db.prices : x.sync_version = sync_version /\ x.tcg_market # None}})

count_catalog_records(db, dataset) ==
  LET current_version == read_catalog_sync_row(db, dataset).current_version
  IN  IF current_version = None THEN 0
      ELSE IF Trim(current_version[1]) = "" THEN 0
      ELSE count_catalog_records_for_version(db, current_version[1])

-----------------------------------------------------------------------------
(* VendorMergeEngine: the compact price-row upsert *)

\* the rowid SQLite gives the next inserted row
NextRowid(rows) ==
  IF rows = {} THEN 1
  ELSE 1 + (CHOOSE m \in {r.rowid : r \in rows} :
              \A r \in rows : r.rowid <= m)

\* a price row without its rowid
Content(r) == [f \in (DOMAIN r) \ {"rowid"} |-> r[f]]

Contents(rows) == {Content(r) : r \in rows}

PriceKey(r) ==
  <<r.printing_id, UnwrapOr(r.condition_id, 0), UnwrapOr(r.finish_id, 0),
    r.sync_version>>

clean_price(value) ==
  IF value # None /\ value[1] >= 0 THEN value ELSE None

\* a row without any of its six value fields would be written
all_channels_unchecked(excluded) == FALSE

\* the early return: nothing to write when the six values are all absent
all_channels_absent(excluded) ==
  /\ excluded.tcg_low = None /\ excluded.tcg_market = None
  /\ excluded.tcg_high = None /\ excluded.ck_sell = None
  /\ excluded.ck_buylist = None
  /\ excluded.ck_buylist_quantity_cap = None

\* variant: column = excluded.column
merge_channel_overwrite(excluded, existing) == excluded

\* column = COALESCE(excluded.column, card_data_card_prices.column)
merge_channel(excluded, existing) == Coalesce(excluded, existing)

\* variant: the newer of the two stamps is kept
merge_freshness_newest(excluded, existing) ==
  IF excluded > existing THEN excluded ELSE existing

\* captured_ymd = excluded.captured_ymd, captured_at = excluded.captured_at
merge_freshness(excluded, existing) == excluded

upsert_compact_price_row(rows, printing_id, condition_id, finish_id, tcg_low, tcg_market, tcg_high, ck_sell, ck_buylist, ck_buylist_quantity_cap, sync_version, captured_ymd, captured_at) ==
  Bind([rowid |-> NextRowid(rows),
        printing_id |-> printing_id, condition_id |-> condition_id,
        finish_id |-> finish_id, sync_version |-> sync_version,
        tcg_low |-> clean_price(tcg_low),
        tcg_market |-> clean_price(tcg_market),
        tcg_high |-> clean_price(tcg_high),
        ck_sell |-> clean_price(ck_sell),
        ck_buylist |-> clean_price(ck_buylist),
        ck_buylist_quantity_cap |-> ck_buylist_quantity_cap,
        captured_ymd |-> captured_ymd, captured_at |-> captured_at],
       LAMBDA excluded :
    LET conflict == {r \in rows : PriceKey(r) = PriceKey(excluded)}
        merged(old) ==
          [old EXCEPT
             !.tcg_low = merge_channel(excluded.tcg_low, @),
             !.tcg_market = merge_channel(excluded.tcg_market, @),
             !.tcg_high = merge_channel(excluded.tcg_high, @),
             !.ck_sell = merge_channel(excluded.ck_sell, @),
             !.ck_buylist = merge_channel(excluded.ck_buylist, @),
             !.ck_buylist_quantity_cap =
                merge_channel(excluded.ck_buylist_quantity_cap, @),
             !.captured_ymd = merge_freshness(excluded.captured_ymd, @),
             !.captured_at = merge_freshness(excluded.captured_at, @)]
    IN  IF all_channels_absent(excluded) THEN rows
        ELSE IF conflict = {} THEN rows \cup {excluded}
        ELSE (rows \ conflict) \cup {merged(old) : old \in conflict})

-----------------------------------------------------------------------------
(* StateHasher *)

IdIndex(id) == CHOOSE i \in 1..Len(IdOrder) : IdOrder[i] = id

\* the query's result without its ORDER BY clause
order_by_rowid(rows) ==
  [k \in 1..Cardinality(rows) |->
     CHOOSE r \in rows :
       Cardinality({x \in rows : x.rowid < r.rowid}) = k - 1]

\* ORDER BY p.id (rows of one printing in rowid order)
order_by_printing_id(rows) ==
  [k \in 1..Cardinality(rows) |->
     CHOOSE r \in rows :
       Cardinality({x \in rows :
         \/ IdIndex(x.printing_id) < IdIndex(r.printing_id)
         \/ x.printing_id = r.printing_id /\ x.rowid < r.rowid}) = k - 1]

\* the rows the hash query selects: prices JOIN printings JOIN cards
HashedRows(db, sync_version) ==
  {r \in db.prices :
     /\ r.sync_version = sync_version /\ r.tcg_market # None
     /\ r.printing_id \in DOMAIN db.printings
     /\ db.printings[r.printing_id].card_id \in DOMAIN db.cards}

\* format!("{}|{}|{}|{}|{}|{:.6}|{}\n", ...): the price in millionths
HashLine(db, r) ==
  LET p == db.printings[r.printing_id]
  IN  <<r.printing_id, db.cards[p.card_id].name, p.set_code,
        p.collector_number, UnwrapOr(p.image_normal_url, ""),
        r.tcg_market[1] * 10000, r.captured_at>>

compute_catalog_state_hash(db, dataset) ==
  LET current_version == read_catalog_sync_row(db, dataset).current_version
  IN  IF current_version = None THEN <<dataset>>
      ELSE Bind(HashedRows(db, current_version[1]), LAMBDA selected :
           Bind(order_by_printing_id(selected), LAMBDA rows :
             <<dataset>> \o [k \in 1..Len(rows) |-> HashLine(db, rows[k])]))

-----------------------------------------------------------------------------
(* DatasetVersionStore *)

\* variant that writes the sync state and no version record
write_catalog_sync_state_pointer_only(db, dataset, current_version, state_hash, t) ==
  [db EXCEPT !.syncState =
     Put(db.syncState, dataset,
         [current_version |-> current_version,
          state_hash |-> state_hash, synced_at |-> Some(t)])]

write_catalog_sync_state(db, dataset, current_version, state_hash, t) ==
  LET withState ==
        [db EXCEPT !.syncState =
           Put(db.syncState, dataset,
               [current_version |-> current_version,
                state_hash |-> state_hash, synced_at |-> Some(t)])]
      normalized_version == Trim(current_version[1])
  IN  IF current_version # None /\ normalized_version # ""
      THEN [withState EXCEPT !.datasetVersions =
              Put(db.datasetVersions, <<dataset, normalized_version>>,
                  [source_id |-> SCRYFALL_SOURCE_ID,
                   dataset_name |-> dataset,
                   build_version |-> normalized_version,
                   state_hash |-> state_hash,
                   record_count |->
                     count_catalog_records_for_version(db, normalized_version),
                   created_at |-> t])]
      ELSE withState

\* variant that moves the dataset's pointer and writes no version record
write_source_sync_state_only(db, source_id, dataset_name, build_version, record_count, state_hash, t) == [db EXCEPT !.syncState = Put(db.syncState, dataset_name, [current_version |-> Some(build_version), state_hash |-> state_hash, synced_at |-> Some(t)])]

write_source_sync_record(db, source_id, dataset_name, build_version, record_count, state_hash, t) ==
  [db EXCEPT
     !.datasetVersions =
        Put(db.datasetVersions, <<source_id, dataset_name, build_version>>,
            [source_id |-> source_id, dataset_name |-> dataset_name,
             build_version |-> build_version, state_hash |-> state_hash,
             record_count |-> record_count, created_at |-> t]),
     !.syncState =
        Put(db.syncState, dataset_name,
            [current_version |-> Some(build_version),
             state_hash |-> state_hash, synced_at |-> Some(t)])]

\* the two audit tables; the params! list binds strategy to the patch_hash
\* column and patch_hash to the strategy column of system_data_sync_patches
append_catalog_patch_history(db, dataset, from_version, to_version, strategy, patch_hash, added_count, updated_count, removed_count, total_records, t) ==
  [db EXCEPT
     !.patches = Append(db.patches,
        [dataset_name |-> dataset, from_version |-> from_version,
         to_version |-> to_version, patch_hash |-> Some(strategy),
         strategy |-> patch_hash, added_count |-> added_count,
         updated_count |-> updated_count, removed_count |-> removed_count,
         created_at |-> t]),
     !.applyHistory = Append(db.applyHistory,
        [dataset_name |-> dataset, from_version |-> from_version,
         to_version |-> to_version, strategy |-> strategy,
         result |-> "success", applied_at |-> t])]

load_catalog_sync_state(db, dataset) ==
  LET row == read_catalog_sync_row(db, dataset)
  IN  [dataset |-> dataset, current_version |-> row.current_version,
       state_hash |-> row.state_hash, synced_at |-> row.synced_at,
       total_records |-> count_catalog_records(db, dataset)]

-----------------------------------------------------------------------------
(* PatchApplier *)

CardIdOf(id) == <<"scryfall", id>>

upsert_catalog_record(db, row, sync_version, t) ==
  LET normalized_scryfall_id == ToLower(Trim(row.scryfall_id))
      normalized_set == ToLower(Trim(row.set_code))
      normalized_number == Trim(row.collector_number)
      normalized_name == Trim(row.name)
      updated_at == IF row.updated_at = 0 THEN t ELSE row.updated_at
      captured_ymd ==
        UnwrapOr(Coalesce(captured_ymd_from_sync_version(sync_version),
                          captured_ymd_from_iso(updated_at)),
                 current_captured_ymd(t))
      inferred_set_name ==
        IF normalized_set = "" THEN "UNKNOWN" ELSE ToUpper(normalized_set)
      card_id ==
        IF normalized_scryfall_id \in DOMAIN db.printings
        THEN db.printings[normalized_scryfall_id].card_id
        ELSE CardIdOf(normalized_scryfall_id)
      printing ==
        IF normalized_scryfall_id \in DOMAIN db.printings
        THEN [db.printings[normalized_scryfall_id] EXCEPT
                !.set_code = normalized_set,
                !.collector_number = normalized_number,
                !.image_normal_url = Coalesce(row.image_url, @)]
        ELSE [card_id |-> card_id, set_code |-> normalized_set,
              collector_number |-> normalized_number,
              image_normal_url |-> row.image_url]
      low_price == UnwrapOr(row.low_price, row.market_price)
      high_price == UnwrapOr(row.high_price, row.market_price)
  IN  IF normalized_scryfall_id = ""
      THEN [ok |-> FALSE, error |-> "EmptyScryfallId", db |-> db]
      ELSE IF row.market_price < 0
      THEN [ok |-> FALSE, error |-> "InvalidMarketPrice", db |-> db]
      ELSE [ok |-> TRUE, error |-> "",
            db |-> [db EXCEPT
              !.sets = Put(db.sets, normalized_set,
                           [set_name |-> inferred_set_name,
                            updated_at |-> updated_at]),
              !.cards = Put(db.cards, card_id, [name |-> normalized_name]),
              !.printings = Put(db.printings, normalized_scryfall_id, printing),
              !.prices = upsert_compact_price_row(db.prices,
                  normalized_scryfall_id, Some(CONDITION_NM_ID),
                  Some(FINISH_NONFOIL_ID), Some(low_price),
                  Some(row.market_price), Some(high_price), None, None, None,
                  sync_version, captured_ymd, updated_at)]]

RECURSIVE UpsertRecords(_, _, _, _, _)
\* for row in records.iter() { upsert_catalog_record(&tx, row, version)?; }
UpsertRecords(db, records, i, sync_version, t) ==
  IF i > Len(records) THEN [ok |-> TRUE, error |-> "", db |-> db]
  ELSE Bind(upsert_catalog_record(db, records[i], sync_version, t), LAMBDA step :
         IF step.ok
         THEN UpsertRecords(step.db, records, i + 1, sync_version, t)
         ELSE step)

Failure(db, error) == [ok |-> FALSE, error |-> error, db |-> db, dto |-> None]

\* variant in which the writes made before the failure stay
rollback_missing(committed, partial) == partial

\* the transaction is dropped uncommitted: the writes made in it are undone
rollback(committed, partial) == committed

\* variant without the DELETE
delete_version_rows_skipped(rows, sync_version) == rows

\* DELETE FROM card_data_card_prices WHERE sync_version = ?1
delete_version_rows(rows, sync_version) ==
  {r \in rows : r.sync_version # sync_version}

\* variant that accepts every expected hash
snapshot_hash_unchecked(snapshot_hash, computed_state_hash) == FALSE

\* if !expected_hash.trim().is_empty() && expected_hash != computed_state_hash
snapshot_hash_mismatch(snapshot_hash, computed_state_hash) ==
  /\ snapshot_hash # None
  /\ snapshot_hash[1] # <<>>
  /\ snapshot_hash[1] # computed_state_hash

\* variant in which a snapshot is accepted on an unsynced replica only
snapshot_continuity_checked(current_version, to_version) == current_version = None

\* the pointer is read for the audit record and compared with nothing
snapshot_continuity(current_version, to_version) == TRUE

apply_catalog_snapshot(db, input, t) ==
  LET dataset == normalize_catalog_dataset(input.dataset)
      normalized_dataset == dataset.value
      to_version == Trim(input.version)
      strategy == ToLower(Trim(UnwrapOr(input.strategy, "full")))
      from_version == read_catalog_sync_row(db, normalized_dataset).current_version
  IN  IF ~dataset.ok THEN Failure(db, "UnsupportedDataset")
      ELSE IF to_version = "" THEN Failure(db, "VersionRequired")
      ELSE IF ~snapshot_continuity(from_version, to_version)
           THEN Failure(rollback(db, db), "VersionMismatch")
      ELSE
      Bind([db EXCEPT !.prices = delete_version_rows(db.prices, to_version)],
           LAMBDA deleted :
      Bind(UpsertRecords(deleted, input.records, 1, to_version, t),
           LAMBDA upserted :
        IF ~upserted.ok
        THEN Failure(rollback(db, upserted.db), upserted.error)
        ELSE
      Bind(write_catalog_sync_state(upserted.db, normalized_dataset,
                                    Some(to_version), None, t),
           LAMBDA pending :
      Bind(compute_catalog_state_hash(pending, normalized_dataset),
           LAMBDA computed_state_hash :
        IF snapshot_hash_mismatch(input.snapshot_hash, computed_state_hash)
        THEN Failure(rollback(db, pending), "HashMismatch")
        ELSE
      Bind(write_catalog_sync_state(pending, normalized_dataset,
             Some(to_version), Some(computed_state_hash), t),
           LAMBDA written :
      Bind(count_catalog_records(written, normalized_dataset),
           LAMBDA total_records :
        [ok |-> TRUE, error |-> "",
         db |-> append_catalog_patch_history(written, normalized_dataset,
                  from_version, to_version, strategy, input.snapshot_hash,
                  Len(input.records), 0, 0, total_records, t),
         dto |-> Some([dataset |-> normalized_dataset,
                       from_version |-> from_version,
                       to_version |-> to_version,
                       strategy |-> strategy,
                       patch_hash |-> input.snapshot_hash,
                       state_hash |-> computed_state_hash,
                       total_records |-> total_records,
                       added_count |-> Len(input.records),
                       updated_count |-> 0,
                       removed_count |-> 0])]))))))

RECURSIVE DeleteRemoved(_, _, _, _)
\* the DELETE loop over input.removed
DeleteRemoved(rows, removed, i, to_version) ==
  IF i > Len(removed) THEN rows
  ELSE LET id == Trim(removed[i])
       IN  Bind(IF id = "" THEN rows
                ELSE {r \in rows : ~(r.sync_version = to_version
                                     /\ r.printing_id = ToLower(id))},
                LAMBDA kept : DeleteRemoved(kept, removed, i + 1, to_version))

\* variant without the comparison
version_chain_unchecked(current_version, from_version) == TRUE

\* if current_version_text != from_version { return Err(..) }, negated
version_chain_ok(current_version, from_version) ==
  UnwrapOr(current_version, "none") = from_version

\* variant without the INSERT ... SELECT
copy_forward_skipped(rows, from_version, to_version, to_captured_ymd, to_captured_at) == rows

\* INSERT INTO card_data_card_prices ... SELECT ... WHERE sync_version = ?4
copy_forward(rows, from_version, to_version, to_captured_ymd, to_captured_at) ==
  LET source == {r \in rows : r.sync_version = from_version}
      base == NextRowid(rows) - 1
  IN  rows \cup
        {[r EXCEPT !.rowid = base + Cardinality({x \in source : x.rowid <= r.rowid}),
                   !.sync_version = to_version,
                   !.captured_ymd = to_captured_ymd,
                   !.captured_at = to_captured_at] : r \in source}

\* variant with the two loops in the other order
upsert_updated_then_added(db, added, updated, to_version, t) ==
  Bind(UpsertRecords(db, updated, 1, to_version, t), LAMBDA first :
    IF first.ok THEN UpsertRecords(first.db, added, 1, to_version, t)
    ELSE first)

\* the two upsert loops: input.added, then input.updated
upsert_added_then_updated(db, added, updated, to_version, t) ==
  Bind(UpsertRecords(db, added, 1, to_version, t), LAMBDA first :
    IF first.ok THEN UpsertRecords(first.db, updated, 1, to_version, t)
    ELSE first)

\* variant in which a patch's hash is verified as a snapshot's is
patch_hash_checked(patch_hash, computed_state_hash) == snapshot_hash_mismatch(patch_hash, computed_state_hash)

\* the computed hash is stored and returned, never compared with patch_hash
patch_hash_mismatch(patch_hash, computed_state_hash) == FALSE

\* the command, current_version being what read_catalog_sync_row returned
\* inside the transaction and db the database its statements work on
apply_catalog_patch_tx(db, input, t, current_version) ==
  LET dataset == normalize_catalog_dataset(input.dataset)
      normalized_dataset == dataset.value
      from_version == Trim(input.from_version)
      to_version == Trim(input.to_version)
      strategy == ToLower(Trim(UnwrapOr(input.strategy, "chain")))
      to_captured_ymd ==
        UnwrapOr(captured_ymd_from_sync_version(to_version),
                 current_captured_ymd(t))
  IN  IF ~dataset.ok THEN Failure(db, "UnsupportedDataset")
      ELSE IF from_version = "" \/ to_version = ""
           THEN Failure(db, "VersionRequired")
      ELSE IF ~version_chain_ok(current_version, from_version)
           THEN Failure(rollback(db, db), "VersionMismatch")
      ELSE
      Bind(delete_version_rows(db.prices, to_version), LAMBDA deleted :
      Bind(copy_forward(deleted, from_version, to_version, to_captured_ymd, t),
           LAMBDA copied :
      Bind(DeleteRemoved(copied, input.removed, 1, to_version),
           LAMBDA removed :
      Bind([db EXCEPT !.prices = removed], LAMBDA pruned :
      Bind(upsert_added_then_updated(pruned, input.added, input.updated,
                                     to_version, t),
           LAMBDA updated :
        IF ~updated.ok THEN Failure(rollback(db, updated.db), updated.error)
        ELSE
      Bind(write_catalog_sync_state(updated.db, normalized_dataset,
                                    Some(to_version), None, t),
           LAMBDA pending :
      Bind(compute_catalog_state_hash(pending, normalized_dataset),
           LAMBDA computed_state_hash :
        IF patch_hash_mismatch(input.patch_hash, computed_state_hash)
        THEN Failure(rollback(db, pending), "HashMismatch")
        ELSE
      Bind(write_catalog_sync_state(pending, normalized_dataset,
             Some(to_version), Some(computed_state_hash), t),
           LAMBDA written :
      Bind(count_catalog_records(written, normalized_dataset),
           LAMBDA total_records :
        [ok |-> TRUE, error |-> "",
         db |-> append_catalog_patch_history(written, normalized_dataset,
                  Some(from_version), to_version, strategy, input.patch_hash,
                  Len(input.added), Len(input.updated), Len(input.removed),
                  total_records, t),
         dto |-> Some([dataset |-> normalized_dataset,
                       from_version |-> Some(from_version),
                       to_version |-> to_version,
                       strategy |-> strategy,
                       patch_hash |-> input.patch_hash,
                       state_hash |-> computed_state_hash,
                       total_records |-> total_records,
                       added_count |-> Len(input.added),
                       updated_count |-> Len(input.updated),
                       removed_count |-> Len(input.removed)])])))))))))

\* the pointer the transaction of apply_catalog_patch reads
patch_current_version(db, input) ==
  read_catalog_sync_row(db, normalize_catalog_dataset(input.dataset).value).current_version

\* the command on a database no other connection writes to
apply_catalog_patch(db, input, t) ==
  apply_catalog_patch_tx(db, input, t, patch_current_version(db, input))

\* DELETE ... WHERE dataset_name = ?1 on a table held as a function
WithoutDataset(table, dataset) ==
  [k \in {x \in DOMAIN table : table[x].dataset_name # dataset} |-> table[k]]

reset_catalog_sync_state_for_test(db, dataset_input) ==
  LET dataset == normalize_catalog_dataset(dataset_input)
      normalized_dataset == dataset.value
  IN  IF ~dataset.ok THEN Failure(db, "UnsupportedDataset")
      ELSE
      Bind([db EXCEPT
              !.prices = {},
              !.syncState =
                 [k \in (DOMAIN db.syncState) \ {normalized_dataset} |->
                    db.syncState[k]],
              !.applyHistory =
                 SelectSeq(db.applyHistory,
                           LAMBDA h : h.dataset_name # normalized_dataset),
              !.patches =
                 SelectSeq(db.patches,
                           LAMBDA p : p.dataset_name # normalized_dataset),
              !.datasetVersions =
                 WithoutDataset(db.datasetVersions, normalized_dataset)],
           LAMBDA cleared :
        [ok |-> TRUE, error |-> "", db |-> cleared,
         dto |-> Some(load_catalog_sync_state(cleared, normalized_dataset))])

-----------------------------------------------------------------------------
(* Vendor observations *)

ensure_card_and_printing(db, scryfall_id, name, set_code, collector_number, image_url, t) ==
  LET normalized_scryfall_id == ToLower(Trim(scryfall_id))
      candidate_set == ToLower(Trim(set_code))
      normalized_set == IF candidate_set = "" THEN "unknown" ELSE candidate_set
      set_name ==
        IF normalized_set = "unknown" THEN "UNKNOWN" ELSE ToUpper(normalized_set)
      normalized_collector_number ==
        IF Trim(collector_number) = "" THEN "0" ELSE Trim(collector_number)
      card_id ==
        IF normalized_scryfall_id \in DOMAIN db.printings
        THEN db.printings[normalized_scryfall_id].card_id
        ELSE CardIdOf(normalized_scryfall_id)
      printing ==
        IF normalized_scryfall_id \in DOMAIN db.printings
        THEN [db.printings[normalized_scryfall_id] EXCEPT
                !.set_code = IF normalized_set = "unknown" THEN @
                             ELSE normalized_set,
                !.collector_number =
                   IF normalized_collector_number = "0" THEN @
                   ELSE normalized_collector_number,
                !.image_normal_url = Coalesce(image_url, @)]
        ELSE [card_id |-> card_id, set_code |-> normalized_set,
              collector_number |-> normalized_collector_number,
              image_normal_url |-> image_url]
  IN  IF normalized_scryfall_id = ""
      THEN [ok |-> FALSE, error |-> "EmptyScryfallId", db |-> db]
      ELSE [ok |-> TRUE, error |-> "",
            db |-> [db EXCEPT
              !.sets = Put(db.sets, normalized_set,
                           [set_name |-> set_name, updated_at |-> t]),
              !.cards = Put(db.cards, card_id, [name |-> Trim(name)]),
              !.printings = Put(db.printings, normalized_scryfall_id, printing)]]

\* the channel tuple (tcg_low, tcg_market, tcg_high, ck_sell, ck_buylist)
\* chosen from (vendor, channel)
ChannelsFor(market_price, vendor, channel) ==
  LET normalized_vendor == ToLower(Trim(vendor))
      normalized_channel == ToLower(Trim(channel))
      p == Some(market_price)
  IN  IF normalized_vendor = "tcgplayer"
      THEN CASE normalized_channel = "low" -> <<p, None, None, None, None>>
             [] normalized_channel = "mid" -> <<None, p, None, None, None>>
             [] normalized_channel = "high" -> <<None, None, p, None, None>>
             [] OTHER -> <<None, p, None, None, None>>
      ELSE IF normalized_vendor \in {"ck", "card kingdom", "cardkingdom"}
      THEN IF normalized_channel \in {"buy", "buylist"}
           THEN <<None, None, None, None, p>>
           ELSE <<None, None, None, p, None>>
      ELSE <<None, p, None, None, None>>

maybe_insert_market_snapshot(rows, scryfall_id, market_price, vendor, channel, t) ==
  LET ch == ChannelsFor(market_price, vendor, channel)
  IN  IF market_price < 0 THEN rows
      ELSE upsert_compact_price_row(rows, scryfall_id, Some(CONDITION_NM_ID),
             Some(FINISH_NONFOIL_ID), ch[1], ch[2], ch[3], ch[4], ch[5], None,
             sync_version_from_iso(t),
             UnwrapOr(captured_ymd_from_iso(t), current_captured_ymd(t)), t)

RECURSIVE RecordSnapshots(_, _, _, _)
\* the loop of record_market_snapshots; writes are committed one by one
RecordSnapshots(db, snapshots, i, t) ==
  IF i > Len(snapshots) THEN [ok |-> TRUE, error |-> "", db |-> db, dto |-> None]
  ELSE
    LET snapshot == snapshots[i]
        id == ToLower(Trim(snapshot.scryfall_id))
        price == snapshot.market_price[1]
    IN
    Bind(ensure_card_and_printing(db, id, snapshot.name, snapshot.set_code,
           snapshot.collector_number, snapshot.image_url, t),
         LAMBDA ensured :
      IF ~ensured.ok THEN Failure(db, ensured.error)
      ELSE IF snapshot.market_price = None
      THEN RecordSnapshots(ensured.db, snapshots, i + 1, t)
      ELSE
    Bind(maybe_insert_market_snapshot(ensured.db.prices, id, price,
                                      "scryfall", "market", t),
         LAMBDA r1 :
    Bind(maybe_insert_market_snapshot(r1, id, price, "tcgplayer", "market", t),
         LAMBDA r2 :
    Bind(maybe_insert_market_snapshot(r2, id, price, "tcgplayer", "low", t),
         LAMBDA r3 :
    Bind(maybe_insert_market_snapshot(r3, id, price, "tcgplayer", "high", t),
         LAMBDA r4 :
    Bind([ensured.db EXCEPT !.prices = r4], LAMBDA recorded :
      RecordSnapshots(recorded, snapshots, i + 1, t)))))))

record_market_snapshots(db, snapshots, t) == RecordSnapshots(db, snapshots, 1, t)

-----------------------------------------------------------------------------
(* Buylist vendor sync *)

\* the f64 that is not a number, which str::parse::<f64> returns for the
\* text "NaN"; an integer no price of the model takes
NaN == 0 - 1000

\* x > 0.0 and x <= 0.0 on an f64: both are false of NaN
f64_positive(x) == x # NaN /\ x > 0

f64_non_positive(x) == x # NaN /\ x <= 0

\* parse_ck_price on the price texts the model uses (cents)
CkPriceTable ==
  ("0.01" :> 1) @@ ("$0.02" :> 2) @@ ("0.00" :> 0) @@ ("-0.01" :> -1)
  @@ ("NaN" :> NaN)

parse_ck_price(value) ==
  LET text == Trim(UnwrapOr(value, ""))
  IN  IF text \in DOMAIN CkPriceTable THEN CkPriceTable[text] ELSE 0

parse_ck_bool(value) ==
  ToLower(Trim(UnwrapOr(value, ""))) \in {"true", "1", "yes", "y"}

\* variant in which a line of a known printing is never counted as skipped
ck_line_unpriced_never(buy_price, sell_price) == FALSE

\* if buy_price <= 0.0 && sell_price <= 0.0 { skipped += 1; }
ck_line_unpriced(buy_price, sell_price) == f64_non_positive(buy_price) /\ f64_non_positive(sell_price)

RECURSIVE CkRows(_, _, _, _, _)
\* the loop of sync_ck_prices_into_card_data over the pricelist lines
CkRows(db, rows, i, acc, t) ==
  IF i > Len(rows) THEN [rows |-> db.prices, counts |-> acc]
  ELSE
    LET row == rows[i]
        scryfall_id == ToLower(Trim(UnwrapOr(row.scryfall_id, "")))
        buy_price == parse_ck_price(row.price_buy)
        sell_price == parse_ck_price(row.price_sell)
        finish_id == IF parse_ck_bool(row.is_foil) THEN FINISH_FOIL_ID
                     ELSE FINISH_NONFOIL_ID
        sync_version == sync_version_from_iso(t)
        captured_ymd == UnwrapOr(captured_ymd_from_iso(t), current_captured_ymd(t))
    IN
    Bind([acc EXCEPT !.scanned = @ + 1], LAMBDA scanned :
      IF scryfall_id = "" \/ scryfall_id \notin DOMAIN db.printings
      THEN Bind([scanned EXCEPT !.skipped = @ + 1], LAMBDA counts :
             CkRows(db, rows, i + 1, counts, t))
      ELSE
    Bind(IF f64_positive(buy_price)
         THEN upsert_compact_price_row(db.prices, scryfall_id,
                Some(CONDITION_NM_ID), Some(finish_id), None, None, None,
                None, Some(buy_price), Some(UnwrapOr(row.qty_buying, 0)),
                sync_version, captured_ymd, t)
         ELSE db.prices,
         LAMBDA afterBuy :
    Bind(IF f64_positive(sell_price)
         THEN upsert_compact_price_row(afterBuy, scryfall_id,
                Some(CONDITION_NM_ID), Some(finish_id), None, None, None,
                Some(sell_price), None, None, sync_version, captured_ymd, t)
         ELSE afterBuy,
         LAMBDA afterSell :
    Bind([db EXCEPT !.prices = afterSell], LAMBDA next :
    Bind([scanned EXCEPT
            !.upserted_buylist = IF f64_positive(buy_price) THEN @ + 1 ELSE @,
            !.upserted_sell = IF f64_positive(sell_price) THEN @ + 1 ELSE @,
            !.skipped = IF ck_line_unpriced(buy_price, sell_price)
                        THEN @ + 1 ELSE @],
         LAMBDA counts : CkRows(next, rows, i + 1, counts, t))))))

CkZero == [scanned |-> 0, upserted_buylist |-> 0, upserted_sell |-> 0, skipped |-> 0]

\* feed = None when load_ck_pricelist_items fails, else Some(lines)
sync_ck_prices_into_card_data(db, feed, t) ==
  IF feed = None THEN Failure(db, "CkPricelistUnavailable")
  ELSE IF feed[1] = <<>>
  THEN [ok |-> TRUE, error |-> "", db |-> db, dto |-> Some(CkZero)]
  ELSE Bind(CkRows(db, feed[1], 1, CkZero, t), LAMBDA done :
         [ok |-> TRUE, error |-> "",
          db |-> [db EXCEPT !.prices = done.rows],
          dto |-> Some(done.counts)])

-----------------------------------------------------------------------------
(* Card-metadata refresh (the hashed fields of cards and printings) *)

\* Option<&str> -> trimmed, non-empty text or the default
TextOr(value, default) ==
  IF value = None \/ Trim(value[1]) = "" THEN default ELSE Trim(value[1])

upsert_scryfall_oracle_if_changed(db, card, t) ==
  LET scryfall_id == ToLower(Trim(card.id))
      set_code == ToLower(Trim(UnwrapOr(card.set, "unknown")))
      set_name == TextOr(card.set_name, "UNKNOWN")
      name == TextOr(card.name, "Unknown Card")
      collector_number == TextOr(card.collector_number, "0")
      normal_image == card.image_normal
      was_existing_printing == scryfall_id \in DOMAIN db.printings
      card_id == IF was_existing_printing THEN db.printings[scryfall_id].card_id
                 ELSE CardIdOf(scryfall_id)
      next_signature ==
        <<name, set_code, collector_number, UnwrapOr(normal_image, "")>>
  IN  IF scryfall_id = "" THEN [changed |-> FALSE, db |-> db]
      ELSE
      Bind([db EXCEPT
              !.sets = Put(db.sets, set_code,
                          [set_name |-> set_name, updated_at |-> t]),
              !.cards = IF card_id \in DOMAIN db.cards THEN @
                        ELSE Put(@, card_id, [name |-> name]),
              !.printings = IF was_existing_printing THEN @
                            ELSE Put(@, scryfall_id,
                                   [card_id |-> card_id, set_code |-> set_code,
                                    collector_number |-> collector_number,
                                    image_normal_url |-> normal_image])],
           LAMBDA inserted :
        LET joined ==
              inserted.printings[scryfall_id].card_id \in DOMAIN inserted.cards
            current_signature ==
              <<inserted.cards[card_id].name,
                inserted.printings[scryfall_id].set_code,
                inserted.printings[scryfall_id].collector_number,
                UnwrapOr(inserted.printings[scryfall_id].image_normal_url, "")>>
        IN  IF ~joined THEN [changed |-> FALSE, db |-> inserted]
            ELSE IF current_signature = next_signature
                 THEN [changed |-> ~was_existing_printing, db |-> inserted]
            ELSE [changed |-> TRUE,
                  db |-> [inserted EXCEPT
                     !.cards = Put(@, card_id, [name |-> name]),
                     !.printings = Put(@, scryfall_id,
                        [card_id |-> card_id, set_code |-> set_code,
                         collector_number |-> collector_number,
                         image_normal_url |-> normal_image])]])

-----------------------------------------------------------------------------
(* TrendCalculator *)

price_column_from_source_key(source_id) ==
  LET key == ToLower(Trim(source_id))
  IN  CASE key = "tcg-low" -> "tcg_low"
        [] key = "tcg-mid" -> "tcg_market"
        [] key = "tcg-high" -> "tcg_high"
        [] key = "ck-sell" -> "ck_sell"
        [] key = "ck-buylist" -> "ck_buylist"
        [] OTHER -> "tcg_market"

\* variant: only the rows of the catalog's current version
trend_rows_of_current_version(db, scryfall_id, column) ==
  {r \in db.prices :
     /\ r.printing_id = scryfall_id /\ r[column] # None
     /\ Some(r.sync_version) =
          read_catalog_sync_row(db, CATALOG_DATASET_DEFAULT).current_version}

\* WHERE printing_id = ?1 AND {col} IS NOT NULL
trend_rows(db, scryfall_id, column) ==
  {r \in db.prices : r.printing_id = scryfall_id /\ r[column] # None}

newest(rows) == {r \in rows : \A x \in rows : x.captured_at <= r.captured_at}

\* ORDER BY captured_at DESC LIMIT 2: the result lists the query can give;
\* SQL leaves the order of rows with equal captured_at open
latest_two(rows) ==
  IF rows = {} THEN {<<>>}
  ELSE UNION {IF rows \ {f} = {} THEN {<<f>>}
              ELSE {<<f, s>> : s \in newest(rows \ {f})} : f \in newest(rows)}

\* variant: previous - current
price_delta_reversed(current_price, previous_price) ==
  IF current_price # None /\ previous_price # None
  THEN Some(previous_price[1] - current_price[1]) ELSE None

price_delta(current_price, previous_price) ==
  IF current_price # None /\ previous_price # None
  THEN Some(current_price[1] - previous_price[1]) ELSE None

\* delta > 0.009 and delta < -0.009, the delta being in cents
price_direction(delta) ==
  IF delta = None THEN "none"
  ELSE IF delta[1] * 10 > 9 THEN "up"
  ELSE IF delta[1] * 10 < -9 THEN "down"
  ELSE "flat"

\* the PriceTrend built from the rows the query returned
price_trend(column, selected) ==
  LET current_price == IF Len(selected) >= 1 THEN selected[1][column] ELSE None
      previous_price == IF Len(selected) >= 2 THEN selected[2][column] ELSE None
  IN  [current_price |-> current_price,
       previous_price |-> previous_price,
       price_delta |-> price_delta(current_price, previous_price),
       price_direction |-> price_direction(price_delta(current_price, previous_price)),
       last_price_at |-> IF Len(selected) >= 1 THEN Some(selected[1].captured_at)
                         ELSE None]

\* the trends the call can return
build_price_trend_by_column(db, scryfall_id, column) ==
  {price_trend(column, selected) :
     selected \in latest_two(trend_rows(db, scryfall_id, column))}

build_price_trend(db, scryfall_id) ==
  build_price_trend_by_column(db, scryfall_id, "tcg_market")

\* the trend of one owned printing in load_collection_price_trends_by_source
price_trend_by_source(db, scryfall_id, source_id) ==
  build_price_trend_by_column(db, scryfall_id,
                              price_column_from_source_key(source_id))

\* the replies get_market_price_trends can give
get_market_price_trends(db, scryfall_ids) ==
  LET ids == [i \in 1..Len(scryfall_ids) |-> ToLower(Trim(scryfall_ids[i]))]
      trends == [i \in 1..Len(ids) |-> build_price_trend(db, ids[i])]
  IN  {[ok |-> TRUE, error |-> "", db |-> db,
        dto |-> Some([i \in 1..Len(ids) |->
                  [scryfall_id |-> ids[i],
                   current_price |-> pick[i].current_price,
                   previous_price |-> pick[i].previous_price,
                   price_delta |-> pick[i].price_delta,
                   price_direction |-> pick[i].price_direction,
                   last_price_at |-> pick[i].last_price_at]])] :
       pick \in {f \in [1..Len(ids) -> UNION {trends[i] : i \in 1..Len(ids)}] :
                   \A i \in 1..Len(ids) : f[i] \in trends[i]}}

-----------------------------------------------------------------------------
(* MultiSourceSyncOrchestrator *)

RECURSIVE PreferredHigh(_, _, _)
\* the SKU scan that selects tcg_high: the first NM/EN SKU of the default
\* variant with a listed price, else the last NM/EN SKU with one
PreferredHigh(skus, i, preferred) ==
  IF i > Len(skus) THEN preferred
  ELSE LET sku == skus[i]
           cnd == ToUpper(Trim(UnwrapOr(sku.cnd, "")))
           lng == ToUpper(Trim(UnwrapOr(sku.lng, "")))
           variant == ToUpper(Trim(UnwrapOr(sku.var, "N")))
       IN  IF cnd # "NM" \/ lng # "EN" THEN PreferredHigh(skus, i + 1, preferred)
           ELSE IF sku.hi = None THEN PreferredHigh(skus, i + 1, preferred)
           ELSE IF variant = "N" THEN sku.hi
           ELSE PreferredHigh(skus, i + 1, sku.hi)

RECURSIVE TcgProducts(_, _, _, _, _)
\* the product loop of one tracker set
TcgProducts(db, products, i, acc, t) ==
  IF i > Len(products) THEN [rows |-> db.prices, counts |-> acc]
  ELSE
    LET product == products[i]
        scryfall_id == ToLower(Trim(UnwrapOr(product.scryfall_id, "")))
        exists == product.scryfall_id # None /\ scryfall_id \in DOMAIN db.printings
        chosen == Coalesce(product.normal, product.foil)
        market == Coalesce(chosen[1].market, chosen[1].low)
        low == Coalesce(chosen[1].low, chosen[1].market)
        high == PreferredHigh(product.skus, 1, None)
        upserts == Cardinality({k \in 1..3 : <<market, low, high>>[k] # None})
    IN  IF ~exists THEN TcgProducts(db, products, i + 1, acc, t)
        ELSE
        Bind([acc EXCEPT !.tcg_products_matched = @ + 1], LAMBDA matched :
          IF chosen = None THEN TcgProducts(db, products, i + 1, matched, t)
          ELSE IF market = None /\ low = None /\ high = None
               THEN TcgProducts(db, products, i + 1, matched, t)
          ELSE
        Bind([db EXCEPT !.prices =
                upsert_compact_price_row(db.prices, scryfall_id,
                  Some(CONDITION_NM_ID), Some(FINISH_NONFOIL_ID), low, market,
                  high, None, None, None, sync_version_from_iso(t),
                  UnwrapOr(captured_ymd_from_iso(t), current_captured_ymd(t)),
                  t)],
             LAMBDA next :
        Bind([matched EXCEPT !.tcg_price_upserts = @ + upserts], LAMBDA counts :
          TcgProducts(next, products, i + 1, counts, t))))

\* variant in which a failed fetch ends the set loop
after_failed_set_break(set_list, i) == Len(set_list) + 1

\* Err(_) => continue: the loop goes on with the next set
after_failed_set(set_list, i) == i + 1

RECURSIVE TcgSets(_, _, _, _, _)
\* the set loop of step 1; a set whose fetch failed is skipped
TcgSets(db, set_list, i, acc, t) ==
  IF i > Len(set_list) THEN [rows |-> db.prices, counts |-> acc]
  ELSE Bind([acc EXCEPT !.tcg_sets_scanned = @ + 1], LAMBDA scanned :
         IF set_list[i] = None
         THEN TcgSets(db, set_list, after_failed_set(set_list, i), scanned, t)
         ELSE
       Bind(TcgProducts(db, set_list[i][1], 1, scanned, t), LAMBDA done :
       Bind([db EXCEPT !.prices = done.rows], LAMBDA next :
         TcgSets(next, set_list, i + 1, done.counts, t))))

RECURSIVE ScryfallCards(_, _, _, _, _)
\* the card loop of step 3
ScryfallCards(db, bulk, i, acc, t) ==
  IF i > Len(bulk) THEN [db |-> db, counts |-> acc]
  ELSE Bind(upsert_scryfall_oracle_if_changed(db, bulk[i], t), LAMBDA step :
       Bind([acc EXCEPT !.scryfall_scanned = @ + 1,
                        !.scryfall_updated = IF step.changed THEN @ + 1 ELSE @,
                        !.scryfall_unchanged = IF step.changed THEN @ ELSE @ + 1],
            LAMBDA counts : ScryfallCards(step.db, bulk, i + 1, counts, t)))

\* feeds.tcg : None (set list unavailable) or Some(sequence of sets), a set
\*             being None (one of its three documents failed) or Some(products)
\* feeds.ck  : None (pricelist unavailable) or Some(lines)
\* feeds.scryfall : None (bulk download failed) or Some(cards)
\* The command runs on a plain connection: every write is committed as it is
\* made, and an error return keeps the writes made before it.
sync_all_sources_now(db, feeds, t) ==
  LET sync_version == sync_version_from_iso(t)
  IN  IF feeds.tcg = None THEN Failure(db, "TcgSetListUnavailable")
      ELSE
      Bind(TcgSets(db, feeds.tcg[1], 1,
                   [tcg_sets_scanned |-> 0, tcg_products_matched |-> 0,
                    tcg_price_upserts |-> 0], t),
           LAMBDA tcg :
      Bind([db EXCEPT !.prices = tcg.rows], LAMBDA afterTcg :
      Bind(sync_ck_prices_into_card_data(afterTcg, feeds.ck, t),
           LAMBDA ck_result :
        IF ~ck_result.ok THEN Failure(afterTcg, ck_result.error)
        ELSE IF feeds.scryfall = None
             THEN Failure(ck_result.db, "ScryfallBulkUnavailable")
        ELSE
      Bind(ScryfallCards(ck_result.db, feeds.scryfall[1], 1,
             [scryfall_scanned |-> 0, scryfall_updated |-> 0,
              scryfall_unchanged |-> 0], t),
           LAMBDA scry :
      Bind(write_source_sync_record(scry.db, SCRYFALL_SOURCE_ID,
             "default_cards_live", sync_version,
             scry.counts.scryfall_scanned, None, t),
           LAMBDA rec1 :
      Bind(write_source_sync_record(rec1, TCGTRACKING_SOURCE_ID,
             "tcgtracking_tcgplayer_live", sync_version,
             tcg.counts.tcg_products_matched, None, t),
           LAMBDA rec2 :
      Bind(write_source_sync_record(rec2, CK_SOURCE_ID, "ck_pricelist_live",
             sync_version, ck_result.dto[1].scanned, None, t),
           LAMBDA rec3 :
        [ok |-> TRUE, error |-> "",
         db |-> write_catalog_sync_state(rec3, CATALOG_DATASET_DEFAULT,
                                         Some(sync_version), None, t),
         dto |-> Some([sync_version |-> sync_version,
                       scryfall_scanned |-> scry.counts.scryfall_scanned,
                       scryfall_updated |-> scry.counts.scryfall_updated,
                       scryfall_unchanged |-> scry.counts.scryfall_unchanged,
                       tcg_sets_scanned |-> tcg.counts.tcg_sets_scanned,
                       tcg_products_matched |-> tcg.counts.tcg_products_matched,
                       tcg_price_upserts |-> tcg.counts.tcg_price_upserts,
                       ck_scanned |-> ck_result.dto[1].scanned,
                       ck_upserted_buylist |-> ck_result.dto[1].upserted_buylist,
                       ck_upserted_sell |-> ck_result.dto[1].upserted_sell])])))))))

-----------------------------------------------------------------------------
(* Inputs *)

Rec(id, price, low, upd, img) ==
  [scryfall_id |-> id, name |-> "Opt", set_code |-> "LEA",
   collector_number |-> "1", image_url |-> img, market_price |-> price,
   low_price |-> low, high_price |-> None, updated_at |-> upd]

RA1 == Rec("a", 1, None, 1, None)

RA2 == Rec(" A", 2, None, 1, None)

RB0 == Rec("b", 1, None, 0, Some("img"))

RB2 == Rec("b", 2, Some(-1), 1, None)

RNoId == Rec("", 1, None, 1, None)

RNeg == Rec("a", -1, None, 1, None)

\* a digest that no catalog state produces
BadHash == <<"bad">>

SnapshotInput(dataset, version, records, snapshot_hash, strategy) ==
  [dataset |-> dataset, version |-> version, records |-> records,
   snapshot_hash |-> snapshot_hash, strategy |-> strategy]

PatchInput(dataset, from_version, to_version, added, updated, removed, patch_hash, strategy) ==
  [dataset |-> dataset, from_version |-> from_version,
   to_version |-> to_version, added |-> added, updated |-> updated,
   removed |-> removed, patch_hash |-> patch_hash, strategy |-> strategy]

\* the requests the commands of the state machine are called with
SnapshotRequests ==
  {SnapshotInput(None, "v1", <<RA1, RB0>>, None, None),
   SnapshotInput(None, " v2", <<RB2, RA2>>, Some(<<"published">>), None),
   SnapshotInput(None, "v1", <<RA1>>, Some(BadHash), None),
   SnapshotInput(None, "v1", <<RA1>>, None, None),
   SnapshotInput(Some(" Default_Cards"), "v1", <<RB2, RNeg>>, None, Some(" Full"))}

PatchRequests ==
  {PatchInput(None, "v1", " v2", <<>>, <<RA2>>, <<>>, None, None),
   PatchInput(None, "v1", "v1", <<>>, <<>>, <<>>, Some(BadHash), None),
   PatchInput(None, "v2", "v1", <<RB0>>, <<RB2>>, <<" A", "b">>, None, Some(" Full")),
   PatchInput(None, "v1", "v2", <<RA1>>, <<RNoId>>, <<>>, None, None)}

Snap(id, price) ==
  [scryfall_id |-> id, name |-> "Opt", set_code |-> "lea",
   collector_number |-> "1", image_url |-> None, market_price |-> price]

MarketSnapshotRequests ==
  {<<Snap(" A", Some(2)), Snap("b", None)>>, <<Snap("b", Some(1)), Snap("", Some(1))>>}

CkLine(id, foil, buy, sell, qty) ==
  [scryfall_id |-> id, is_foil |-> foil, price_buy |-> buy,
   price_sell |-> sell, qty_buying |-> qty]

CkLines ==
  <<CkLine(Some("a"), Some("true"), Some("0.01"), Some("$0.02"), Some(4)),
    CkLine(Some(" B"), None, Some("0.00"), Some("0.01"), None),
    CkLine(None, None, Some("0.01"), Some("0.01"), None),
    CkLine(Some("a"), Some("no"), Some("-0.01"), None, Some(2)),
    CkLine(Some("a"), None, Some("NaN"), Some("0.00"), None)>>

CkFeeds == {None, Some(<<>>), Some(CkLines)}

Sku(cnd, var, hi) == [cnd |-> Some(cnd), var |-> var, lng |-> Some("EN"), hi |-> hi]

Product(id, normal, foil, skus) ==
  [scryfall_id |-> id, normal |-> normal, foil |-> foil, skus |-> skus]

Point(low, market) == [low |-> low, market |-> market]

\* three sets; the documents of the second could not be fetched
TcgSetList ==
  <<Some(<<Product(Some("a"), Some(Point(Some(1), None)), None,
                   <<Sku("LP", None, Some(1)), Sku("NM", Some("F"), Some(2))>>)>>),
    None,
    Some(<<Product(Some("b"), None, Some(Point(None, Some(2))), <<>>),
           Product(None, None, None, <<>>)>>)>>

\* a tracker set whose only product, of printing b, lists a negative price
NegativeTcgSetList ==
  <<Some(<<Product(Some("b"), Some(Point(Some(-1), None)), None, <<>>)>>)>>

Card(id, name, img) ==
  [id |-> id, name |-> name, set |-> Some("LEA"), set_name |-> Some("Alpha"),
   collector_number |-> Some("1"), image_normal |-> img]

ScryfallBulk == <<Card("a", Some("Opt"), None), Card(" B", Some("Mox"), None)>>

SourceFeeds ==
  {[tcg |-> None, ck |-> Some(CkLines), scryfall |-> Some(ScryfallBulk)],
   [tcg |-> Some(TcgSetList), ck |-> None, scryfall |-> Some(ScryfallBulk)],
   [tcg |-> Some(TcgSetList), ck |-> Some(CkLines), scryfall |-> None],
   [tcg |-> Some(TcgSetList), ck |-> Some(CkLines), scryfall |-> Some(ScryfallBulk)],
   [tcg |-> Some(NegativeTcgSetList), ck |-> Some(<<>>), scryfall |-> Some(ScryfallBulk)]}

-----------------------------------------------------------------------------
(* The state machine *)

Idle == [op |-> "none", ok |-> TRUE, error |-> "", dto |-> None]

\* the connections of concurrent callers (each command opens its own)
Connections == {1, 2}

\* a connection on which no command has run yet
Closed == [pc |-> "idle", input |-> None, tx |-> None, error |-> "", during |-> {}]

Init ==
  /\ prices = {}
  /\ printings = <<>>
  /\ cards = <<>>
  /\ sets = <<>>
  /\ syncState = <<>>
  /\ datasetVersions = <<>>
  /\ patches = <<>>
  /\ applyHistory = <<>>
  /\ now = 1
  /\ calls = 0
  /\ request = None
  /\ result = Idle
  /\ before = EmptyDb
  /\ conns = [c \in Connections |-> Closed]

\* one command returns: its writes are in the database, its reply in result
Return(op, input, out) ==
  /\ prices' = out.db.prices
  /\ printings' = out.db.printings
  /\ cards' = out.db.cards
  /\ sets' = out.db.sets
  /\ syncState' = out.db.syncState
  /\ datasetVersions' = out.db.datasetVersions
  /\ patches' = out.db.patches
  /\ applyHistory' = out.db.applyHistory
  /\ result' = [op |-> op, ok |-> out.ok, error |-> out.error, dto |-> out.dto]
  /\ calls' = calls + 1
  /\ request' = Some(input)
  /\ before' = Db
  /\ UNCHANGED <<now, conns>>

\* the digest the catalog provider would publish for a snapshot request
PublishedHash(db, input, t) ==
  Bind(apply_catalog_snapshot(db, input, t), LAMBDA out :
    IF out.ok THEN out.dto[1].state_hash ELSE BadHash)

\* a request marked "published" carries the digest the provider publishes
WithPublishedHash(db, input, t) ==
  IF input.snapshot_hash = Some(<<"published">>)
  THEN [input EXCEPT !.snapshot_hash =
          Some(PublishedHash(db, [input EXCEPT !.snapshot_hash = None], t))]
  ELSE input

ApplySnapshot ==
  /\ calls < MaxOps
  /\ \E req \in SnapshotRequests :
       \E input \in {WithPublishedHash(Db, req, now)} :
         \E out \in {apply_catalog_snapshot(Db, input, now)} :
           Return("apply_catalog_snapshot", input, out)

ApplyPatch ==
  /\ calls < MaxOps
  /\ \E req \in PatchRequests :
       \E out \in {apply_catalog_patch(Db, req, now)} :
         Return("apply_catalog_patch", req, out)

ResetForTest ==
  /\ calls < MaxOps
  /\ \E out \in {reset_catalog_sync_state_for_test(Db, None)} :
       Return("reset_catalog_sync_state_for_test", None, out)

RecordMarketSnapshots ==
  /\ calls < MaxOps
  /\ \E snapshots \in MarketSnapshotRequests :
       \E out \in {record_market_snapshots(Db, snapshots, now)} :
         Return("record_market_snapshots", snapshots, out)

SyncCkPrices ==
  /\ calls < MaxOps
  /\ \E feed \in CkFeeds :
       \E out \in {sync_ck_prices_into_card_data(Db, feed, now)} :
         Return("sync_ck_prices_into_card_data", feed, out)

SyncAllSources ==
  /\ calls < MaxOps
  /\ \E feeds \in SourceFeeds :
       \E out \in {sync_all_sources_now(Db, feeds, now)} :
         Return("sync_all_sources_now", feeds, out)

\* wall-clock time passes between commands
Tick ==
  /\ now < MaxClock
  /\ now' = now + 1
  /\ UNCHANGED <<prices, printings, cards, sets, syncState, datasetVersions,
                 patches, applyHistory, calls, request, result, before, conns>>

Next ==
  \/ ApplySnapshot
  \/ ApplyPatch
  \/ ResetForTest
  \/ RecordMarketSnapshots
  \/ SyncCkPrices
  \/ SyncAllSources
  \/ Tick

Spec == Init /\ [][Next]_vars

-----------------------------------------------------------------------------
(* The state machine with the trend query *)

TrendRequests == {<<" A">>, <<"b", "a">>}

\* a query is one more command: a session holds at most MaxOps + MaxQueries
\* commands, the writing ones among its first MaxOps
GetMarketPriceTrends ==
  /\ calls < MaxOps + MaxQueries
  /\ \E scryfall_ids \in TrendRequests :
       \E out \in get_market_price_trends(Db, scryfall_ids) :
         Return("get_market_price_trends", scryfall_ids, out)

TrendNext ==
  \/ Next
  \/ GetMarketPriceTrends

TrendSpec == Init /\ [][TrendNext]_vars


-----------------------------------------------------------------------------
(* Inputs the properties range over *)

RecordLists ==
  {<<>>, <<RA1>>, <<RA1, RB0>>, <<RB0, RA1>>, <<RA1, RA2>>, <<RA2, RA1>>,
   <<RB2, RA2>>, <<RA1, RNoId>>, <<RNoId, RB0>>, <<RB2, RNeg>>, <<RNeg, RA1>>}

IsValidRecord(row) ==
  ToLower(Trim(row.scryfall_id)) # "" /\ row.market_price >= 0

AllValid(records) == \A i \in 1..Len(records) : IsValidRecord(records[i])

NormalizedIds(records) ==
  {ToLower(Trim(records[i].scryfall_id)) : i \in 1..Len(records)}

DistinctIds(records) == Cardinality(NormalizedIds(records)) = Len(records)

ValidLists == {records \in RecordLists : AllValid(records)}

InvalidLists == RecordLists \ ValidLists

VersionInputs == {"v1", " v2"}

BlankVersions == {"", " "}

FromVersions == {"v1", "v2", "none"}

CatalogRow == read_catalog_sync_row(Db, CATALOG_DATASET_DEFAULT)

\* the pointer as apply_catalog_patch compares it
CurrentVersionText == UnwrapOr(CatalogRow.current_version, "none")

-----------------------------------------------------------------------------
(* C1 - version-chain guard *)

C1_PatchInputs ==
  {PatchInput(None, from, to, added, updated, <<>>, None, None) :
     from \in FromVersions, to \in VersionInputs,
     added \in {<<>>, <<RB0>>}, updated \in {<<RA2>>}}

\* C1: apply_catalog_patch called with a from_version that differs from the
\* dataset's current version (the text "none" when there is none) fails with
\* the version-mismatch error and leaves every table as it was.
C1_VersionChainGuard ==
  \A input \in C1_PatchInputs :
    LET out == apply_catalog_patch(Db, input, now)
    IN  Trim(input.from_version) # CurrentVersionText =>
          /\ ~out.ok
          /\ out.error = "VersionMismatch"
          /\ out.db = Db

\* a patch was refused for its from_version on a replica that holds rows
C1_Witness ==
  /\ result.op = "apply_catalog_patch"
  /\ result.error = "VersionMismatch"
  /\ CatalogRow.current_version # None
  /\ request[1].from_version # CatalogRow.current_version[1]
  /\ prices # {}

-----------------------------------------------------------------------------
(* C2 - hash-mismatch guard *)

C2_Bases ==
  {SnapshotInput(None, version, records, None, None) :
     version \in VersionInputs,
     records \in {<<>>, <<RB0, RA1>>, <<RA2, RA1>>}}

\* hashes a caller can send that differ from the computed one: a foreign
\* digest, the digest of no rows, the digest of another batch
C2_WrongHashes(base, computed) ==
  {BadHash, <<CATALOG_DATASET_DEFAULT>>,
   PublishedHash(Db, [base EXCEPT !.records = <<RA1, RB0>>], now)}
    \ {computed}

\* C2: apply_catalog_snapshot called with a non-empty expected hash that
\* differs from the hash computed over the rows it has just written fails
\* with the hash-mismatch error and leaves every table as it was; with the
\* computed hash itself it succeeds.
C2_HashMismatchGuard ==
  \A base \in C2_Bases :
    LET computed == PublishedHash(Db, base, now)
    IN  /\ \A wrong \in C2_WrongHashes(base, computed) :
             LET out == apply_catalog_snapshot(Db,
                          [base EXCEPT !.snapshot_hash = Some(wrong)], now)
             IN  ~out.ok /\ out.error = "HashMismatch" /\ out.db = Db
        /\ apply_catalog_snapshot(Db,
             [base EXCEPT !.snapshot_hash = Some(computed)], now).ok

\* a snapshot was refused for its hash on a replica that holds other rows
C2_Witness ==
  /\ result.op = "apply_catalog_snapshot"
  /\ result.error = "HashMismatch"
  /\ request[1].snapshot_hash = Some(BadHash)
  /\ CatalogRow.current_version # None
  /\ prices # {}

-----------------------------------------------------------------------------
(* C3 - pre-flight validation *)

C3_SnapshotInputs ==
  {SnapshotInput(Some("prices"), "v1", <<RA1>>, None, None)}
  \cup {SnapshotInput(None, version, <<RB0, RA1>>, None, None) :
           version \in BlankVersions}
  \cup {SnapshotInput(None, version, records, None, None) :
           version \in VersionInputs, records \in InvalidLists}

C3_PatchInputs ==
  {PatchInput(Some("prices"), CurrentVersionText, " v2", <<RB0>>, <<>>, <<>>,
              None, None)}
  \cup {PatchInput(None, versions[1], versions[2], <<RB0>>, <<RA2>>, <<"a">>,
                   None, None) :
           versions \in {<<" ", " v2">>, <<CurrentVersionText, "">>}}
  \cup {PatchInput(None, CurrentVersionText, to, lists[1], lists[2], <<"b">>,
                   None, None) :
           to \in VersionInputs,
           lists \in {<<<<RNeg, RA1>>, <<>>>>, <<<<RB0>>, <<RB2, RNeg>>>>,
                      <<<<RA1, RNoId>>, <<RA2>>>>, <<<<>>, <<RNoId, RB0>>>>}}

C3_Rejected(dataset, versions, records) ==
  \/ ~normalize_catalog_dataset(dataset).ok
  \/ \E version \in versions : Trim(version) = ""
  \/ ~AllValid(records)

\* C3: a snapshot or patch that names an unsupported dataset, carries an
\* empty or whitespace-only version, or holds at any position a record with
\* an empty id or a negative price fails and leaves every table as it was.
C3_PreflightValidation ==
  /\ \A input \in C3_SnapshotInputs :
       LET out == apply_catalog_snapshot(Db, input, now)
       IN  C3_Rejected(input.dataset, {input.version}, input.records) =>
             ~out.ok /\ out.db = Db
  /\ \A input \in C3_PatchInputs :
       LET out == apply_catalog_patch(Db, input, now)
       IN  C3_Rejected(input.dataset, {input.from_version, input.to_version},
                       input.added \o input.updated) =>
             ~out.ok /\ out.db = Db

\* a patch whose second list holds the invalid record was refused after its
\* first list had been accepted, on a replica that holds rows
C3_Witness ==
  /\ result.op = "apply_catalog_patch"
  /\ result.error = "EmptyScryfallId"
  /\ AllValid(request[1].added)
  /\ request[1].added # <<>>
  /\ prices # {}

-----------------------------------------------------------------------------
(* C4 - snapshot idempotence *)

VersionRows(rows, sync_version) ==
  Contents({r \in rows : r.sync_version = sync_version})

\* C4: when apply_catalog_snapshot is applied twice in a row with the same
\* version and the same record list, the second application succeeds with
\* the same stateHash and totalRecords as the first, and leaves the same
\* price rows under that version and the same stored version and hash.
C4_SnapshotIdempotent ==
  [][(/\ calls' = calls + 1
      /\ result.op = "apply_catalog_snapshot" /\ result.ok
      /\ result'.op = "apply_catalog_snapshot"
      /\ request'[1].dataset = request[1].dataset
      /\ request'[1].version = request[1].version
      /\ request'[1].records = request[1].records
      /\ request'[1].snapshot_hash = None)
     => /\ result'.ok
        /\ result'.dto[1].state_hash = result.dto[1].state_hash
        /\ result'.dto[1].total_records = result.dto[1].total_records
        /\ VersionRows(prices', Trim(request[1].version))
             = VersionRows(prices, Trim(request[1].version))
        /\ syncState'[CATALOG_DATASET_DEFAULT].current_version
             = syncState[CATALOG_DATASET_DEFAULT].current_version
        /\ syncState'[CATALOG_DATASET_DEFAULT].state_hash
             = syncState[CATALOG_DATASET_DEFAULT].state_hash]_vars

-----------------------------------------------------------------------------
(* C5 - snapshot replaces the rows of its version *)

C5_Inputs ==
  {SnapshotInput(None, version, records, None, None) :
     version \in VersionInputs,
     records \in {<<>>, <<RA1>>, <<RB0>>, <<RB2, RA2>>, <<RA2, RA1>>}}

IdsAt(rows, sync_version) ==
  {r.printing_id : r \in {x \in rows : x.sync_version = sync_version}}

OtherVersions(rows, sync_version) ==
  {r \in rows : r.sync_version # sync_version}

\* C5: after a successful apply_catalog_snapshot the printing ids that have a
\* price row under the snapshot's version are exactly the normalized ids of
\* its records, and the rows of every other version are as they were.
C5_SnapshotReplacesVersion ==
  \A input \in C5_Inputs :
    LET out == apply_catalog_snapshot(Db, input, now)
        to_version == Trim(input.version)
    IN  /\ out.ok
        /\ IdsAt(out.db.prices, to_version) = NormalizedIds(input.records)
        /\ OtherVersions(out.db.prices, to_version)
             = OtherVersions(prices, to_version)

\* a successful snapshot dropped the row of a printing it does not list
C5_Witness ==
  /\ result.op = "apply_catalog_snapshot"
  /\ result.ok
  /\ \E r \in before.prices :
       /\ r.sync_version = Trim(request[1].version)
       /\ r.printing_id \notin NormalizedIds(request[1].records)
       /\ r.printing_id \notin IdsAt(prices, r.sync_version)

-----------------------------------------------------------------------------
(* C6 - patch carry-forward *)

RemovedIds(removed) ==
  {ToLower(Trim(removed[i])) : i \in 1..Len(removed)} \ {""}

ChannelsOf(r) ==
  <<r.tcg_low, r.tcg_market, r.tcg_high, r.ck_sell, r.ck_buylist,
    r.ck_buylist_quantity_cap>>

VendorChannelsOf(r) == <<r.ck_sell, r.ck_buylist, r.ck_buylist_quantity_cap>>

\* the row old has a counterpart under to_version in rows: same key, same
\* channels, the three catalog channels excepted for a printing in upserted
CarriedForward(old, rows, to_version, upserted) ==
  \E new \in rows :
    /\ new.sync_version = to_version
    /\ new.printing_id = old.printing_id
    /\ new.condition_id = old.condition_id
    /\ new.finish_id = old.finish_id
    /\ IF old.printing_id \in upserted
       THEN VendorChannelsOf(new) = VendorChannelsOf(old)
       ELSE ChannelsOf(new) = ChannelsOf(old)

\* C6: after every successful apply_catalog_patch each price row that was
\* under from_version before the call and whose printing is not in removed
\* has a counterpart under to_version with the same key and the same six
\* channel values, tcg_low/tcg_market/tcg_high excepted where an added or
\* updated record overwrites them.
C6_PatchCarriesForward ==
  (result.op = "apply_catalog_patch" /\ result.ok) =>
    \A old \in before.prices :
      (/\ old.sync_version = Trim(request[1].from_version)
       /\ old.printing_id \notin RemovedIds(request[1].removed))
      => CarriedForward(old, prices, Trim(request[1].to_version),
                        NormalizedIds(request[1].added \o request[1].updated))

-----------------------------------------------------------------------------
(* C7 - order of removal and upserts inside a patch *)

C7_Inputs ==
  {PatchInput(None, CurrentVersionText, to, lists[1], lists[2], lists[3],
              None, None) :
     to \in VersionInputs,
     lists \in {<<<<RB0>>, <<RB2>>, <<" A", "b">>>>,
                <<<<RA1>>, <<RA2>>, <<>>>>,
                <<<<RA2>>, <<RA1>>, <<"a">>>>,
                <<<<>>, <<RB0>>, <<"b", " ">>>>,
                <<<<>>, <<>>, <<" B">>>>}}

\* the last record of the list that carries the normalized id
LastFor(records, id) ==
  records[CHOOSE i \in 1..Len(records) :
            /\ ToLower(Trim(records[i].scryfall_id)) = id
            /\ \A j \in (i + 1)..Len(records) :
                 ToLower(Trim(records[j].scryfall_id)) # id]

\* the row carries the prices the record supplies: its market price, and its
\* low and high price (the market price when not given) where they are valid
CarriesPricesOf(r, record) ==
  LET low == clean_price(Some(UnwrapOr(record.low_price, record.market_price)))
      high == clean_price(Some(UnwrapOr(record.high_price, record.market_price)))
  IN  /\ r.tcg_market = Some(record.market_price)
      /\ low # None => r.tcg_low = low
      /\ high # None => r.tcg_high = high

\* C7: after a successful apply_catalog_patch no row under to_version exists
\* for a printing listed in removed unless it is also in added or updated; a
\* printing that is removed and upserted has only the freshly written row
\* (removal precedes the upserts); a printing in both added and updated ends
\* with the updated record's prices (added precedes updated).
C7_RemovalThenAddedThenUpdated ==
  \A input \in C7_Inputs :
    LET out == apply_catalog_patch(Db, input, now)
        to_version == Trim(input.to_version)
        removed == RemovedIds(input.removed)
        upserted == NormalizedIds(input.added \o input.updated)
        both == NormalizedIds(input.added) \cap NormalizedIds(input.updated)
        rowsOf(id) == {r \in out.db.prices :
                         r.sync_version = to_version /\ r.printing_id = id}
    IN  /\ out.ok
        /\ \A id \in removed \ upserted : rowsOf(id) = {}
        /\ \A id \in removed \cap upserted :
             /\ Cardinality(rowsOf(id)) = 1
             /\ \A r \in rowsOf(id) :
                  /\ r.condition_id = Some(CONDITION_NM_ID)
                  /\ r.finish_id = Some(FINISH_NONFOIL_ID)
                  /\ VendorChannelsOf(r) = <<None, None, None>>
        /\ \A id \in both :
             \E r \in rowsOf(id) :
               /\ r.condition_id = Some(CONDITION_NM_ID)
               /\ r.finish_id = Some(FINISH_NONFOIL_ID)
               /\ CarriesPricesOf(r, LastFor(input.updated, id))

\* a successful patch removed one carried-forward printing for good and
\* removed, added and updated another
C7_Witness ==
  /\ result.op = "apply_catalog_patch"
  /\ result.ok
  /\ \E id \in RemovedIds(request[1].removed) :
       /\ id \in NormalizedIds(request[1].added)
       /\ id \in NormalizedIds(request[1].updated)
       /\ id \in IdsAt(before.prices, Trim(request[1].from_version))
       /\ id \in IdsAt(prices, Trim(request[1].to_version))
  /\ \E id \in RemovedIds(request[1].removed) :
       /\ id \notin NormalizedIds(request[1].added \o request[1].updated)
       /\ id \in IdsAt(before.prices, Trim(request[1].from_version))
       /\ id \notin IdsAt(prices, Trim(request[1].to_version))

-----------------------------------------------------------------------------
(* C8 - snapshot v1, then patch v1 -> v2 *)

C8_Records == {<<RA1>>, <<RB0>>, <<RA1, RB0>>, <<RB0, RA1>>}

C8_Versions == {<<"v1", " v2">>, <<" v2", "v1">>}

\* C8: on a replica with no price rows and no current version, a snapshot of
\* n records with distinct ids and valid prices returns totalRecords = n and
\* sets the current version; a following patch to another version whose
\* updated list changes the market price of an existing id leaves exactly one
\* row for that id under the new version with the new tcg_market, sets the
\* current version to it and returns totalRecords = n.
C8_SnapshotThenPatch ==
  (prices = {} /\ CatalogRow.current_version = None) =>
    \A records \in C8_Records, versions \in C8_Versions,
       record \in {RA2, RB2}, t \in now..MaxClock :
      LET v1 == Trim(versions[1])
          v2 == Trim(versions[2])
          id == ToLower(Trim(record.scryfall_id))
          first == apply_catalog_snapshot(Db,
                     SnapshotInput(None, versions[1], records, None, None), now)
          second == apply_catalog_patch(first.db,
                      PatchInput(None, versions[1], versions[2], <<>>,
                                 <<record>>, <<>>, None, None), t)
          rows == {r \in second.db.prices :
                     r.sync_version = v2 /\ r.printing_id = id}
      IN  /\ first.ok
          /\ first.dto[1].total_records = Len(records)
          /\ read_catalog_sync_row(first.db, CATALOG_DATASET_DEFAULT)
               .current_version = Some(v1)
          /\ id \in NormalizedIds(records) =>
               /\ second.ok
               /\ Cardinality(rows) = 1
               /\ \A r \in rows : r.tcg_market = Some(record.market_price)
               /\ read_catalog_sync_row(second.db, CATALOG_DATASET_DEFAULT)
                    .current_version = Some(v2)
               /\ second.dto[1].total_records = Len(records)

\* the two calls of the scenario were made on the empty replica, with n = 2
C8_Witness ==
  /\ calls = 2
  /\ result.op = "apply_catalog_patch"
  /\ result.ok
  /\ Len(applyHistory) = 2
  /\ applyHistory[1].from_version = None
  /\ request[1].added = <<>>
  /\ request[1].updated # <<>>
  /\ NormalizedIds(request[1].updated)
       \subseteq IdsAt(before.prices, Trim(request[1].from_version))
  /\ result.dto[1].total_records = 2
  /\ CatalogRow.current_version = Some(Trim(request[1].to_version))

-----------------------------------------------------------------------------
(* C9 - the stored hash is the hash of the stored version's rows *)

\* C9: after every successful apply_catalog_snapshot, apply_catalog_patch and
\* sync_all_sources_now the state_hash stored in the catalog's sync state is
\* the hash computed over the rows of the stored current version as they
\* stand in that committed state.
C9_StoredHashMatchesRows ==
  (/\ result.ok
   /\ result.op \in {"apply_catalog_snapshot", "apply_catalog_patch",
                     "sync_all_sources_now"})
  => CatalogRow.state_hash
       = Some(compute_catalog_state_hash(Db, CATALOG_DATASET_DEFAULT))

-----------------------------------------------------------------------------
(* C10 - the state hash does not depend on the order of the records *)

Reverse(list) == [i \in 1..Len(list) |-> list[Len(list) + 1 - i]]

C10_Lists == {<<RA1, RB2>>, <<RB2, RA2>>, <<RA1, RA2>>, <<RA1, RB0>>}

\* the ways to give the two records of a list to a patch
Splits(list) ==
  {<<list, <<>>>>, <<Reverse(list), <<>>>>, <<<<>>, list>>,
   <<<<list[1]>>, <<list[2]>>>>, <<<<list[2]>>, <<list[1]>>>>}

SnapshotHash(records, version) ==
  apply_catalog_snapshot(Db,
    SnapshotInput(None, version, records, None, None), now).dto[1].state_hash

PatchHash(split, version) ==
  apply_catalog_patch(Db,
    PatchInput(None, CurrentVersionText, version, split[1], split[2], <<>>,
               None, None), now).dto[1].state_hash

OrderIndependent(records) ==
  \A version \in VersionInputs :
    /\ SnapshotHash(records, version) = SnapshotHash(Reverse(records), version)
    /\ LET all_added == PatchHash(<<records, <<>>>>, version)
       IN  \A split \in Splits(records) :
             PatchHash(split, version) = all_added

Stamped(records) == \A i \in 1..Len(records) : records[i].updated_at # 0

-----------------------------------------------------------------------------
(* Price observations: upsert_compact_price_row called on the stored rows *)

ChannelNames ==
  {"tcg_low", "tcg_market", "tcg_high", "ck_sell", "ck_buylist",
   "ck_buylist_quantity_cap"}

NoChannels == [c \in ChannelNames |-> None]

Only(c, v) == [NoChannels EXCEPT ![c] = Some(v)]

\* a key whose row the commands write, and one no command writes, with
\* NULL condition and finish
ObservationKeys ==
  {[printing_id |-> "a", condition_id |-> Some(CONDITION_NM_ID),
    finish_id |-> Some(FINISH_NONFOIL_ID), sync_version |-> "v1"],
   [printing_id |-> "b", condition_id |-> None, finish_id |-> None,
    sync_version |-> "v9"]}

\* one call of upsert_compact_price_row at instant t
Observe(rows, key, channels, t) ==
  upsert_compact_price_row(rows, key.printing_id, key.condition_id,
    key.finish_id, channels.tcg_low, channels.tcg_market, channels.tcg_high,
    channels.ck_sell, channels.ck_buylist, channels.ck_buylist_quantity_cap,
    key.sync_version, DayOf(t), t)

RowsAt(rows, key) == {r \in rows : PriceKey(r) = PriceKey(key)}

RowAt(rows, key) == CHOOSE r \in RowsAt(rows, key) : TRUE

\* the six values stored for a key; all NULL when it has no row
Stored(rows, key) ==
  IF RowsAt(rows, key) = {} THEN NoChannels
  ELSE [c \in ChannelNames |-> RowAt(rows, key)[c]]

-----------------------------------------------------------------------------
(* upsert_compact_price_row on its own: every writer of price rows goes
   through it, with a stamp of the writer's choosing *)

\* values a writer passes: one channel, several channels, a negative
\* quantity cap, nothing at all
PriceObservations ==
  {Only("tcg_low", 3),
   [NoChannels EXCEPT !.tcg_high = Some(4), !.ck_sell = Some(2),
                      !.ck_buylist = Some(1)],
   Only("ck_buylist_quantity_cap", -1),
   NoChannels}

UpsertCompactPriceRow ==
  /\ calls < MaxOps
  /\ \E key \in ObservationKeys :
       \E channels \in PriceObservations :
         \E t \in 1..MaxClock :
           \E rows \in {Observe(prices, key, channels, t)} :
             Return("upsert_compact_price_row",
                    [key |-> key, channels |-> channels, captured_at |-> t],
                    [ok |-> TRUE, error |-> "",
                     db |-> [Db EXCEPT !.prices = rows], dto |-> None])

PriceRowNext ==
  \/ UpsertCompactPriceRow

PriceRowSpec == Init /\ [][PriceRowNext]_vars

-----------------------------------------------------------------------------
(* C11 - coalesce law *)

\* calls that supply valid values: one channel alone, and several at once
C11_Observations ==
  {Only("tcg_low", 3), Only("tcg_market", 3),
   Only("ck_buylist_quantity_cap", 3),
   [NoChannels EXCEPT !.tcg_low = Some(5), !.ck_sell = Some(0)],
   [NoChannels EXCEPT !.tcg_high = Some(4), !.ck_sell = Some(2),
                      !.ck_buylist = Some(1)]}

\* the value of the latest call that supplied channel c
Latest(prior, first, second, c) ==
  IF second[c] # None THEN second[c]
  ELSE IF first[c] # None THEN first[c] ELSE prior[c]

\* C11: after two upsert_compact_price_row calls on one key, in either
\* order, the key has one row and each of its channels holds the value of
\* the latest call that supplied it (the value stored before when neither
\* did); so a call supplying only channel A and one supplying only channel
\* B leave both values in the row whichever runs first.
C11_CoalesceLaw ==
  \A key \in ObservationKeys :
    \A first \in C11_Observations :
      \A second \in C11_Observations :
        LET after == Observe(Observe(prices, key, first, now), key, second, now)
            prior == Stored(prices, key)
        IN  /\ Cardinality(RowsAt(after, key)) = 1
            /\ Stored(after, key) =
                 [c \in ChannelNames |-> Latest(prior, first, second, c)]

\* a call supplying only tcg_low met the row a call supplying tcg_high,
\* ck_sell and ck_buylist had created: the row holds all four values
C11_Witness ==
  /\ result.op = "upsert_compact_price_row"
  /\ request[1].channels = Only("tcg_low", 3)
  /\ Stored(before.prices, request[1].key) =
       [NoChannels EXCEPT !.tcg_high = Some(4), !.ck_sell = Some(2),
                          !.ck_buylist = Some(1)]
  /\ Stored(prices, request[1].key) =
       [NoChannels EXCEPT !.tcg_low = Some(3), !.tcg_high = Some(4),
                          !.ck_sell = Some(2), !.ck_buylist = Some(1)]

-----------------------------------------------------------------------------
(* C12 - no-op law *)

\* calls in which each of the six values is absent or negative
C12_Absent ==
  {NoChannels,
   Only("tcg_market", -1),
   [c \in ChannelNames |-> Some(-1)],
   Only("ck_buylist_quantity_cap", -1)}

-----------------------------------------------------------------------------
(* C13 - negative values are absent *)

\* C13: a negative value in any of the six channels is treated as absent:
\* the call has the effect of the same call without that value.
C13_NegativeIsAbsent ==
  \A key \in ObservationKeys :
    \A c \in ChannelNames :
      \A base \in {NoChannels, Only("tcg_high", 3)} :
        Observe(prices, key, [base EXCEPT ![c] = Some(-1)], now)
          = Observe(prices, key, [base EXCEPT ![c] = None], now)

-----------------------------------------------------------------------------
(* C14 - freshness metadata *)

\* C14: after an upsert_compact_price_row call that supplies a valid value,
\* the row's captured_ymd and captured_at are those of the call, whether
\* the call's stamp is older or newer than the stored one.
C14_FreshnessOverwritten ==
  \A key \in ObservationKeys :
    \A channels \in C11_Observations :
      \A t \in 1..MaxClock :
        LET after == Observe(prices, key, channels, t)
        IN  /\ RowAt(after, key).captured_at = t
            /\ RowAt(after, key).captured_ymd = DayOf(t)

\* a call stamped earlier than the stored row supplied a value: the row
\* carries the earlier stamp
C14_Witness ==
  /\ result.op = "upsert_compact_price_row"
  /\ request[1].channels = Only("tcg_low", 3)
  /\ RowsAt(before.prices, request[1].key) # {}
  /\ request[1].captured_at < RowAt(before.prices, request[1].key).captured_at
  /\ RowAt(prices, request[1].key).captured_at = request[1].captured_at
  /\ RowAt(prices, request[1].key).captured_ymd = DayOf(request[1].captured_at)

-----------------------------------------------------------------------------
(* C15 - no row without a value *)

ValueFields(r) == [c \in ChannelNames |-> r[c]]

\* C15: in every reachable state each persisted price row has a non-null
\* value in at least one of its six value fields.
C15_NoRowWithoutValue ==
  \A r \in prices : ValueFields(r) # NoChannels

\* the full sync met a tracker product of a known printing whose prices are
\* all negative, counted its two prices and wrote no row for it
C15_Witness ==
  /\ result.op = "sync_all_sources_now"
  /\ result.ok
  /\ request[1].tcg = Some(NegativeTcgSetList)
  /\ "b" \in DOMAIN before.printings
  /\ result.dto[1].tcg_products_matched = 1
  /\ result.dto[1].tcg_price_upserts = 2
  /\ prices # {}
  /\ {r \in prices : r.printing_id = "b" /\ r.sync_version = result.dto[1].sync_version} = {}


-----------------------------------------------------------------------------
(* C16 - channels are never lost *)

\* the command of this step is the test reset, or a patch that lists the
\* printing of row r in removed
C16_Exempt(r) ==
  /\ calls' = calls + 1
  /\ \/ result'.op = "reset_catalog_sync_state_for_test"
     \/ /\ result'.op = "apply_catalog_patch"
        /\ r.printing_id \in RemovedIds(request'[1].removed)

\* C16: a channel that is non-null in the row of a key stays non-null in
\* the row of that key across every step, except a test reset and a patch
\* that lists the printing in removed.
C16_ChannelsNeverLost ==
  [][\A r \in prices :
       \A c \in ChannelNames :
         (r[c] # None /\ ~C16_Exempt(r)) =>
           /\ RowsAt(prices', r) # {}
           /\ RowAt(prices', r)[c] # None]_vars


-----------------------------------------------------------------------------
(* C17 - vendor and hint select the channel *)

MarketAggregators == {"tcgplayer"}

BuylistVendors == {"ck", "card kingdom", "cardkingdom"}

C17_Hints == {"low", "mid", "high", "buy", "sell", "market"}

\* the channel named by the rule: the aggregator's low/mid/high, the
\* buylist vendor's buy/sell, and tcg_market for a hint that the vendor
\* does not recognize
C17_Channel(vendor, hint) ==
  IF vendor \in MarketAggregators /\ hint \in {"low", "mid", "high"}
  THEN CASE hint = "low" -> "tcg_low"
         [] hint = "mid" -> "tcg_market"
         [] hint = "high" -> "tcg_high"
  ELSE IF vendor \in BuylistVendors /\ hint \in {"buy", "sell"}
  THEN IF hint = "buy" THEN "ck_buylist" ELSE "ck_sell"
  ELSE "tcg_market"

\* the calls the rule speaks about: the two kinds of vendor with every
\* hint, any other vendor with a hint no vendor recognizes
C17_Calls ==
  {<<vendor, hint>> : vendor \in MarketAggregators \cup BuylistVendors,
                      hint \in C17_Hints}
    \cup {<<"scryfall", "market">>}

\* the key maybe_insert_market_snapshot writes for a printing at instant t
VendorKey(scryfall_id, t) ==
  [printing_id |-> scryfall_id, condition_id |-> Some(CONDITION_NM_ID),
   finish_id |-> Some(FINISH_NONFOIL_ID),
   sync_version |-> sync_version_from_iso(t)]

-----------------------------------------------------------------------------
(* C18 - trend direction *)

SourceKeys == {"tcg-low", "tcg-mid", "tcg-high", "ck-sell", "ck-buylist"}

\* the direction of a delta given in cents: up above 0.009, down below
\* -0.009, flat between
C18_Direction(delta) ==
  IF delta * 10 > 9 THEN "up" ELSE IF delta * 10 < -9 THEN "down" ELSE "flat"

\* a replica with the given tcg_market observations <<price, instant>> of
\* printing a, one per version
C18_Replica(observations) ==
  [EmptyDb EXCEPT !.prices =
     {[rowid |-> i, printing_id |-> "a",
       condition_id |-> Some(CONDITION_NM_ID),
       finish_id |-> Some(FINISH_NONFOIL_ID),
       sync_version |-> VersionLabels[i],
       tcg_low |-> None, tcg_market |-> Some(observations[i][1]),
       tcg_high |-> None, ck_sell |-> None, ck_buylist |-> None,
       ck_buylist_quantity_cap |-> None,
       captured_ymd |-> DayOf(observations[i][2]),
       captured_at |-> observations[i][2]] : i \in 1..Len(observations)}]

\* C18: a trend over fewer than two observations of the channel has
\* direction "none" and neither previous nor delta; otherwise delta is
\* current - previous, the direction follows the 0.009 band, and current
\* is the value of an observation with the latest captured_at.  Prices 2.00
\* at instant 1 and 2.50 at instant 2 give current 2.50, previous 2.00 and
\* direction up.
C18_TrendDirection ==
  /\ \A scryfall_id \in {"a", "b"} :
       \A key \in SourceKeys :
         LET column == price_column_from_source_key(key)
             observations == trend_rows(Db, scryfall_id, column)
         IN  \A trend \in price_trend_by_source(Db, scryfall_id, key) :
               IF Cardinality(observations) < 2
               THEN /\ trend.price_direction = "none"
                    /\ trend.previous_price = None
                    /\ trend.price_delta = None
               ELSE /\ trend.price_delta =
                         Some(trend.current_price[1] - trend.previous_price[1])
                    /\ trend.price_direction =
                         C18_Direction(trend.price_delta[1])
                    /\ \E r \in observations :
                         /\ r[column] = trend.current_price
                         /\ \A x \in observations :
                              x.captured_at <= r.captured_at
  /\ build_price_trend(C18_Replica(<<<<200, 1>>, <<250, 2>>>>), "a")
       = {[current_price |-> Some(250), previous_price |-> Some(200),
           price_delta |-> Some(50), price_direction |-> "up",
           last_price_at |-> Some(2)]}
  /\ \A trend \in build_price_trend(C18_Replica(<<<<200, 1>>>>), "a") :
       trend.price_direction = "none" /\ trend.previous_price = None

\* get_market_price_trends returned a falling trend for a printing with two
\* observations taken at different instants
C18_Witness ==
  /\ result.op = "get_market_price_trends"
  /\ \E i \in DOMAIN result.dto[1] :
       LET trend == result.dto[1][i]
           observations == trend_rows(Db, trend.scryfall_id, "tcg_market")
       IN  /\ trend.price_direction = "down"
           /\ trend.price_delta = Some(trend.current_price[1] - trend.previous_price[1])
           /\ Cardinality({r.captured_at : r \in observations}) = 2

-----------------------------------------------------------------------------
(* C19 - what the trend query reads *)

\* the column a channel key names; tcg_market for a key that is not known
C19_Column(key) ==
  CASE key = "tcg-low" -> "tcg_low"
    [] key = "tcg-mid" -> "tcg_market"
    [] key = "tcg-high" -> "tcg_high"
    [] key \in {"ck-sell", " CK-Sell"} -> "ck_sell"
    [] key = "ck-buylist" -> "ck_buylist"
    [] OTHER -> "tcg_market"

\* current and previous are the values of the two rows with the greatest
\* captured_at among rows
C19_TwoLatest(trend, rows, column) ==
  IF rows = {}
  THEN trend.current_price = None /\ trend.previous_price = None
       /\ trend.last_price_at = None
  ELSE \E f \in rows :
         /\ \A x \in rows : x.captured_at <= f.captured_at
         /\ trend.current_price = f[column]
         /\ trend.last_price_at = Some(f.captured_at)
         /\ IF rows \ {f} = {} THEN trend.previous_price = None
            ELSE \E s \in rows \ {f} :
                   /\ \A x \in rows \ {f} : x.captured_at <= s.captured_at
                   /\ trend.previous_price = s[column]

C19_Selection ==
  \A scryfall_id \in {"a", "b"} :
    \A key \in SourceKeys \cup {" CK-Sell", "bogus", ""} :
      \A trend \in price_trend_by_source(Db, scryfall_id, key) :
        C19_TwoLatest(trend,
          {r \in prices : r.printing_id = scryfall_id /\ r[C19_Column(key)] # None},
          C19_Column(key))

C19_QueryStep ==
  (calls' = calls + 1 /\ result'.op = "get_market_price_trends") =>
    /\ UNCHANGED <<prices, printings, cards, sets, syncState,
                   datasetVersions, patches, applyHistory>>
    /\ \A i \in DOMAIN result'.dto[1] :
         C19_TwoLatest(result'.dto[1][i],
           {r \in prices : r.printing_id = ToLower(Trim(request'[1][i]))
                           /\ r.tcg_market # None},
           "tcg_market")

-----------------------------------------------------------------------------
(* C20 - a failing feed in the full sync *)

FailedFeeds(feeds) == {f \in {"tcg", "ck", "scryfall"} : feeds[f] = None}

\* C20: a full sync in which exactly one feed failed returns its aggregate
\* result, and the result covers the two feeds that were available: the
\* tracker's sets, the pricelist's lines and the bulk file's cards are
\* scanned.
C20_FeedFailureIsolated ==
  (result.op = "sync_all_sources_now"
     /\ Cardinality(FailedFeeds(request[1])) = 1) =>
    /\ result.ok
    /\ result.dto # None
    /\ request[1].tcg # None =>
         result.dto[1].tcg_sets_scanned = Len(request[1].tcg[1])
    /\ request[1].ck # None =>
         result.dto[1].ck_scanned = Len(request[1].ck[1])
    /\ request[1].scryfall # None =>
         result.dto[1].scryfall_scanned = Len(request[1].scryfall[1])

-----------------------------------------------------------------------------
(* C21 - the full sync as one transaction *)

\* C21: a sync_all_sources_now that stopped with an error left no price row
\* of that cycle behind and left the catalog pointer and hash as they were.
C21_FullSyncAtomic ==
  (result.op = "sync_all_sources_now" /\ ~result.ok) =>
    /\ prices = before.prices
    /\ read_catalog_sync_row(Db, CATALOG_DATASET_DEFAULT)
         = read_catalog_sync_row(before, CATALOG_DATASET_DEFAULT)

-----------------------------------------------------------------------------
(* C22 - the version history is append-only *)

\* C22: a command other than the test reset leaves every record of the
\* version history in place with its record_count, state_hash and
\* created_at, also when it applies a version that has a record already.
C22_VersionHistoryAppendOnly ==
  [][result'.op # "reset_catalog_sync_state_for_test" =>
       \A k \in DOMAIN datasetVersions :
         /\ k \in DOMAIN datasetVersions'
         /\ datasetVersions'[k] = datasetVersions[k]]_vars

-----------------------------------------------------------------------------
(* C23 - who moves the catalog pointer *)

PointerOf(db) ==
  [current_version |-> read_catalog_sync_row(db, CATALOG_DATASET_DEFAULT).current_version,
   state_hash |-> read_catalog_sync_row(db, CATALOG_DATASET_DEFAULT).state_hash]

\* C23: vendor observations, the buylist sync and the full-source sync leave
\* the catalog's current_version and state_hash as they were.
C23_PointerOwnedByApplier ==
  result.op \in {"record_market_snapshots", "sync_ck_prices_into_card_data",
                 "sync_all_sources_now"} =>
    PointerOf(Db) = PointerOf(before)

-----------------------------------------------------------------------------
(* C24 - the audit record of an apply *)

ApplyCommands == {"apply_catalog_snapshot", "apply_catalog_patch"}

\* the audit record the request of a successful apply calls for
ExpectedAudit(db, op, input) ==
  IF op = "apply_catalog_snapshot"
  THEN [from_version |-> PointerOf(db).current_version,
        to_version |-> Trim(input.version),
        strategy |-> Some(ToLower(Trim(UnwrapOr(input.strategy, "full")))),
        patch_hash |-> input.snapshot_hash,
        added_count |-> Len(input.records), updated_count |-> 0,
        removed_count |-> 0]
  ELSE [from_version |-> PointerOf(db).current_version,
        to_version |-> Trim(input.to_version),
        strategy |-> Some(ToLower(Trim(UnwrapOr(input.strategy, "chain")))),
        patch_hash |-> input.patch_hash,
        added_count |-> Len(input.added),
        updated_count |-> Len(input.updated),
        removed_count |-> Len(input.removed)]

AuditFields(p) ==
  [from_version |-> p.from_version, to_version |-> p.to_version,
   strategy |-> p.strategy, patch_hash |-> p.patch_hash,
   added_count |-> p.added_count, updated_count |-> p.updated_count,
   removed_count |-> p.removed_count]

\* C24: a successful apply_catalog_snapshot or apply_catalog_patch appended
\* one audit record holding the prior pointer version, the target version,
\* the normalized strategy, the hash the caller supplied and the counts of
\* the request; a failed one appended none.
C24_AuditRecord ==
  result.op \in ApplyCommands =>
    IF result.ok
    THEN /\ Len(patches) = Len(before.patches) + 1
         /\ SubSeq(patches, 1, Len(before.patches)) = before.patches
         /\ AuditFields(patches[Len(patches)])
              = ExpectedAudit(before, result.op, request[1])
    ELSE patches = before.patches

-----------------------------------------------------------------------------
(* C25 - the counts a patch reports *)

\* removed lists: present ids, an absent id, an empty id, a repeated id
C25_RemovedLists ==
  {<<>>, <<"a">>, <<" A", "b">>, <<"b">>, <<"">>, <<"a", "a">>}

\* the printings whose rows the DELETE loop of a patch removes from to_version
ActuallyRemoved(db, input, t) ==
  LET from_version == Trim(input.from_version)
      to_version == Trim(input.to_version)
      copied == copy_forward(delete_version_rows(db.prices, to_version),
                  from_version, to_version,
                  UnwrapOr(captured_ymd_from_sync_version(to_version),
                           current_captured_ymd(t)), t)
  IN  IdsAt(copied, to_version)
        \ IdsAt(DeleteRemoved(copied, input.removed, 1, to_version), to_version)

\* C25: a successful apply_catalog_patch reports as removed_count the number
\* of printings whose rows it removed from to_version and as updated_count
\* the number of records it upserted from updated.
C25_RealCounts ==
  \A removed \in C25_RemovedLists :
    \A updated \in {<<>>, <<RA2>>} :
      LET input == PatchInput(None, CurrentVersionText, " v2", <<>>, updated,
                              removed, None, None)
          out == apply_catalog_patch(Db, input, now)
      IN  out.ok =>
            /\ out.dto[1].updated_count = Len(updated)
            /\ out.dto[1].removed_count
                 = Cardinality(ActuallyRemoved(Db, input, now))

-----------------------------------------------------------------------------
(* C26 - a tracker set whose documents cannot be fetched *)

\* the feeds without the sets that failed
WithoutFailedSets(feeds) ==
  [feeds EXCEPT !.tcg = Some(SelectSeq(feeds.tcg[1], LAMBDA s : s # None))]

\* C26: a sync_all_sources_now whose tracker set list holds sets that failed
\* ends as the same sync without those sets does, with the same price rows
\* and the same matched and upsert counters, and counts the failed sets in
\* tcg_sets_scanned.
C26_SyncStep ==
  (calls' = calls + 1 /\ result'.op = "sync_all_sources_now"
     /\ request'[1].tcg # None) =>
    LET feeds == request'[1]
        ref == sync_all_sources_now(Db, WithoutFailedSets(feeds), now)
    IN  /\ result'.ok = ref.ok
        /\ prices' = ref.db.prices
        /\ result'.ok =>
             /\ result'.dto[1].tcg_sets_scanned = Len(feeds.tcg[1])
             /\ result'.dto[1].tcg_products_matched
                  = ref.dto[1].tcg_products_matched
             /\ result'.dto[1].tcg_price_upserts = ref.dto[1].tcg_price_upserts

C26_FailedSetSkipped == [][C26_SyncStep]_vars

\* the second of three sets failed; the sync wrote the tracker values of
\* printing a (first set) and of printing b (third set) and counted three sets
C26_Witness ==
  /\ result.op = "sync_all_sources_now"
  /\ result.ok
  /\ request[1].tcg = Some(TcgSetList)
  /\ result.dto[1].tcg_sets_scanned = 3
  /\ result.dto[1].tcg_products_matched = 2
  /\ \E r \in prices \ before.prices :
       r.printing_id = "a" /\ r.tcg_high = Some(2)
  /\ \E r \in prices \ before.prices :
       r.printing_id = "b" /\ r.tcg_market = Some(2)

-----------------------------------------------------------------------------
(* C27 - a snapshot needs no continuity *)

\* a snapshot request that passes validation and carries no expected hash,
\* an empty one, or the hash of the state it produces
C27_Acceptable(db, input, t) ==
  /\ normalize_catalog_dataset(input.dataset).ok
  /\ Trim(input.version) # ""
  /\ AllValid(input.records)
  /\ \/ input.snapshot_hash \in {None, Some(<<>>)}
     \/ input.snapshot_hash
          = Some(PublishedHash(db, [input EXCEPT !.snapshot_hash = None], t))

\* C27: an apply_catalog_snapshot step with an acceptable request succeeds
\* whatever the stored current_version is, leaves the pointer at the
\* request's version and reports the pointer it found as from_version.
C27_SnapshotStep ==
  (calls' = calls + 1 /\ result'.op = "apply_catalog_snapshot"
     /\ C27_Acceptable(Db, request'[1], now)) =>
    /\ result'.ok
    /\ syncState'[CATALOG_DATASET_DEFAULT].current_version
         = Some(Trim(request'[1].version))
    /\ result'.dto[1].from_version = CatalogRow.current_version
    /\ result'.dto[1].to_version = Trim(request'[1].version)

C27_SnapshotNoContinuity == [][C27_SnapshotStep]_vars

\* a snapshot of v2 with the published hash was applied on a replica whose
\* pointer was at v1
C27_Witness ==
  /\ result.op = "apply_catalog_snapshot"
  /\ result.ok
  /\ request[1].snapshot_hash = Some(result.dto[1].state_hash)
  /\ PointerOf(before).current_version = Some("v1")
  /\ result.dto[1].from_version = Some("v1")
  /\ PointerOf(Db).current_version = Some("v2")

-----------------------------------------------------------------------------
(* C28 - strategy and patch_hash do not steer an apply *)

C28_Strategies == {None, Some("chain"), Some(" Full")}

C28_PatchHashes == {None, Some(BadHash)}

\* what the claim compares of an apply's outcome
C28_Outcome(out) ==
  [ok |-> out.ok, prices |-> out.db.prices, pointer |-> PointerOf(out.db)]

\* C28: an apply_catalog_patch step ends with the ok flag, the price rows,
\* the current_version and the state_hash that the same request has with
\* any other strategy and patch_hash, and an apply_catalog_snapshot step
\* with those the same request has with any other strategy.
C28_ApplyStep ==
  /\ (calls' = calls + 1 /\ result'.op = "apply_catalog_patch") =>
       \A strategy \in C28_Strategies :
         \A patch_hash \in C28_PatchHashes :
           C28_Outcome(apply_catalog_patch(Db,
               [request'[1] EXCEPT !.strategy = strategy,
                                   !.patch_hash = patch_hash], now))
             = [ok |-> result'.ok, prices |-> prices',
                pointer |-> PointerOf([syncState |-> syncState'])]
  /\ (calls' = calls + 1 /\ result'.op = "apply_catalog_snapshot") =>
       \A strategy \in C28_Strategies :
         C28_Outcome(apply_catalog_snapshot(Db,
             [request'[1] EXCEPT !.strategy = strategy], now))
           = [ok |-> result'.ok, prices |-> prices',
              pointer |-> PointerOf([syncState |-> syncState'])]

C28_StrategyAndHashIgnored == [][C28_ApplyStep]_vars

\* a patch that names strategy " Full" succeeded and changed rows and
\* pointer; the same patch with no strategy and a hash no state has ends
\* the same way
C28_Witness ==
  /\ result.op = "apply_catalog_patch"
  /\ result.ok
  /\ request[1].strategy = Some(" Full")
  /\ request[1].patch_hash = None
  /\ prices # before.prices
  /\ PointerOf(Db) # PointerOf(before)

-----------------------------------------------------------------------------
(* C29 - the lines of the buylist pricelist *)

CkId(line) == ToLower(Trim(UnwrapOr(line.scryfall_id, "")))

CkBuy(line) == parse_ck_price(line.price_buy)

CkSell(line) == parse_ck_price(line.price_sell)

\* the row a pricelist line read at instant t speaks of
CkKey(line, t) ==
  [printing_id |-> CkId(line), condition_id |-> Some(CONDITION_NM_ID),
   finish_id |-> Some(IF parse_ck_bool(line.is_foil) THEN FINISH_FOIL_ID
                      ELSE FINISH_NONFOIL_ID),
   sync_version |-> sync_version_from_iso(t)]

\* lines with an empty id, an unknown id, or neither price positive: they
\* produce no upsert
CkUnusable(known, line) ==
  \/ CkId(line) = ""
  \/ CkId(line) \notin known
  \/ (~f64_positive(CkBuy(line)) /\ ~f64_positive(CkSell(line)))

\* the price the last of the lines i of a key puts on it, else the one kept
LastCkPrice(lines, used, key, t, price(_), kept) ==
  LET writers == {i \in used : CkKey(lines[i], t) = key /\ f64_positive(price(lines[i]))}
  IN  IF writers = {} THEN kept
      ELSE Some(price(lines[CHOOSE i \in writers : \A j \in writers : j <= i]))

\* C29: a sync_ck_prices_into_card_data step on an available pricelist
\* succeeds; it counts every line as scanned; every line is counted as
\* skipped or produces an upsert, the skipped ones being those with an empty
\* id, an unknown id or neither price positive; each row of the table after the step is a
\* row of before, or the row of a line that was not skipped, with the tcg
\* values it had, the last positive buy price of its lines in ck_buylist and
\* their last positive sell price in ck_sell; no row is lost.
C29_CkStep ==
  (calls' = calls + 1 /\ result'.op = "sync_ck_prices_into_card_data"
     /\ request'[1] # None) =>
    LET lines == request'[1][1]
        known == DOMAIN printings
        skipped == {i \in 1..Len(lines) : CkUnusable(known, lines[i])}
        used == (1..Len(lines)) \ skipped
        keys == {CkKey(lines[i], now) : i \in used}
        dto == result'.dto[1]
    IN  /\ result'.ok
        /\ dto.scanned = Len(lines)
        /\ dto.skipped = Cardinality(skipped)
        /\ dto.upserted_buylist
             = Cardinality({i \in used : f64_positive(CkBuy(lines[i]))})
        /\ dto.upserted_sell
             = Cardinality({i \in used : f64_positive(CkSell(lines[i]))})
        /\ \A r \in prices : RowsAt(prices', r) # {}
        /\ \A r \in prices' :
             \/ r \in prices
             \/ \E key \in keys :
                  /\ PriceKey(r) = PriceKey(key)
                  /\ Cardinality(RowsAt(prices', key)) = 1
                  /\ r.tcg_low = Stored(prices, key).tcg_low
                  /\ r.tcg_market = Stored(prices, key).tcg_market
                  /\ r.tcg_high = Stored(prices, key).tcg_high
                  /\ r.ck_buylist = LastCkPrice(lines, used, key, now, CkBuy,
                                      Stored(prices, key).ck_buylist)
                  /\ r.ck_sell = LastCkPrice(lines, used, key, now, CkSell,
                                   Stored(prices, key).ck_sell)
        /\ \A key \in keys : RowsAt(prices', key) # {}

C29_CkLinesAccounted == [][C29_CkStep]_vars

-----------------------------------------------------------------------------
(* C30 - what a successful full sync records *)

\* the dataset each source is recorded under, and the counter it carries
SourceDatasets ==
  {[source_id |-> SCRYFALL_SOURCE_ID, dataset_name |-> "default_cards_live",
    counter |-> "scryfall_scanned"],
   [source_id |-> TCGTRACKING_SOURCE_ID,
    dataset_name |-> "tcgtracking_tcgplayer_live",
    counter |-> "tcg_products_matched"],
   [source_id |-> CK_SOURCE_ID, dataset_name |-> "ck_pricelist_live",
    counter |-> "ck_scanned"]}

\* the records of the version history written for a source's live dataset
\* and a version
SourceRecords(db, source, version) ==
  {db.datasetVersions[k] : k \in
     {x \in DOMAIN db.datasetVersions :
        /\ db.datasetVersions[x].source_id = source.source_id
        /\ db.datasetVersions[x].dataset_name = source.dataset_name
        /\ db.datasetVersions[x].build_version = version}}

\* C30: after a successful sync_all_sources_now of cycle version V the
\* version history holds, for each of the three sources, one record of V
\* whose record_count is the source's scanned or matched counter of the
\* result, and the catalog's current_version is V.
C30_FullSyncRecorded ==
  (result.op = "sync_all_sources_now" /\ result.ok) =>
    /\ \A source \in SourceDatasets :
         /\ Cardinality(SourceRecords(Db, source, result.dto[1].sync_version)) = 1
         /\ \A rec \in SourceRecords(Db, source, result.dto[1].sync_version) :
              rec.record_count = result.dto[1][source.counter]
    /\ PointerOf(Db).current_version = Some(result.dto[1].sync_version)

\* a full sync matched two tracker products, scanned five pricelist lines
\* and two cards, and moved the pointer from a catalog version to its own
C30_Witness ==
  /\ result.op = "sync_all_sources_now"
  /\ result.ok
  /\ result.dto[1].tcg_products_matched = 2
  /\ result.dto[1].ck_scanned = 5
  /\ result.dto[1].scryfall_scanned = 2
  /\ PointerOf(before).current_version # None
  /\ PointerOf(before).current_version # Some(result.dto[1].sync_version)
  /\ PointerOf(Db).current_version = Some(result.dto[1].sync_version)
  /\ \A source \in SourceDatasets :
       SourceRecords(Db, source, result.dto[1].sync_version) # {}

-----------------------------------------------------------------------------
(* C31 - the metadata refresh leaves an unchanged card's rows alone *)

\* the database the card loop of step 3 starts from: the replica after the
\* tracker step and the pricelist step of the same cycle
BeforeScryfall(db, feeds, t) ==
  LET tcg == TcgSets(db, feeds.tcg[1], 1,
                     [tcg_sets_scanned |-> 0, tcg_products_matched |-> 0,
                      tcg_price_upserts |-> 0], t)
  IN  sync_ck_prices_into_card_data([db EXCEPT !.prices = tcg.rows],
                                    feeds.ck, t).db

\* the stored metadata of the card's printing, of its card and of its set
\* equals the incoming fields
MetadataStored(db, card) ==
  LET scryfall_id == ToLower(Trim(card.id))
      set_code == ToLower(Trim(UnwrapOr(card.set, "unknown")))
  IN  /\ scryfall_id \in DOMAIN db.printings
      /\ db.printings[scryfall_id].card_id \in DOMAIN db.cards
      /\ db.cards[db.printings[scryfall_id].card_id].name
           = TextOr(card.name, "Unknown Card")
      /\ db.printings[scryfall_id].set_code = set_code
      /\ db.printings[scryfall_id].collector_number
           = TextOr(card.collector_number, "0")
      /\ UnwrapOr(db.printings[scryfall_id].image_normal_url, "")
           = UnwrapOr(card.image_normal, "")
      /\ set_code \in DOMAIN db.sets
      /\ db.sets[set_code].set_name = TextOr(card.set_name, "UNKNOWN")

RECURSIVE RefreshKeepsRows(_, _, _, _)
\* every call of the card loop leaves the price rows alone, and for a card
\* whose metadata is stored it reports no change and leaves the card, the
\* printing and the set rows as they were
RefreshKeepsRows(db, bulk, i, t) ==
  \/ i > Len(bulk)
  \/ LET step == upsert_scryfall_oracle_if_changed(db, bulk[i], t)
     IN  /\ step.db.prices = db.prices
         /\ MetadataStored(db, bulk[i]) =>
              /\ ~step.changed
              /\ step.db.cards = db.cards
              /\ step.db.printings = db.printings
              /\ step.db.sets = db.sets
         /\ RefreshKeepsRows(step.db, bulk, i + 1, t)

C31_RefreshStep ==
  (calls' = calls + 1 /\ result'.op = "sync_all_sources_now" /\ result'.ok) =>
    /\ RefreshKeepsRows(BeforeScryfall(Db, request'[1], now),
                        request'[1].scryfall[1], 1, now)
    /\ result'.dto[1].scryfall_scanned
         = result'.dto[1].scryfall_updated + result'.dto[1].scryfall_unchanged

\* C31: the metadata refresh of a full sync writes no price row; for a card
\* whose stored metadata equals the incoming fields it rewrites no card,
\* printing or set row and counts the card as unchanged; scanned is the sum
\* of updated and unchanged.
C31_NoRowChurn == [][C31_RefreshStep]_vars

-----------------------------------------------------------------------------
(* C32 - two patch transactions on separate connections *)

\* Each command opens its own connection (open_database) and the patch runs
\* in a deferred transaction (connection.transaction()): its first read takes
\* the database's SHARED lock, its first write the RESERVED lock, and its
\* commit needs every other connection's SHARED lock released. A connection
\* that cannot get its lock receives SQLITE_BUSY, the ? operator returns the
\* error and the dropped transaction rolls back.
holds_shared(conn) == conn.pc \in {"checked", "written"}

holds_reserved(conn) == conn.pc = "written"

\* the first write of a transaction: no other connection holds RESERVED
reserved_lock_free(c) ==
  \A d \in Connections \ {c} : ~holds_reserved(conns[d])

\* variant: a commit that does not wait for the readers
commit_lock_unguarded(c) == TRUE

\* tx.commit(): no other connection holds SHARED
commit_lock_free(c) ==
  \A d \in Connections \ {c} : ~holds_shared(conns[d])

\* the checks of apply_catalog_patch made before the transaction is opened
patch_request_error(input) ==
  IF ~normalize_catalog_dataset(input.dataset).ok THEN "UnsupportedDataset"
  ELSE IF Trim(input.from_version) = "" \/ Trim(input.to_version) = ""
       THEN "VersionRequired"
  ELSE ""

ConnFailed(c, error) ==
  conns' = [conns EXCEPT ![c].pc = "failed", ![c].error = error,
                         ![c].tx = None]

DbUnchanged ==
  UNCHANGED <<prices, printings, cards, sets, syncState, datasetVersions,
              patches, applyHistory>>

\* open_database, the request's normalisation, connection.transaction()
PatchBegin(c) ==
  /\ conns[c].pc = "idle"
  /\ \E req \in PatchRequests :
       conns' = [conns EXCEPT
                   ![c].input = Some(req),
                   ![c].pc = IF patch_request_error(req) = "" THEN "begun"
                             ELSE "failed",
                   ![c].error = patch_request_error(req)]
  /\ DbUnchanged
  /\ UNCHANGED <<now, calls, request, result, before>>

\* read_catalog_sync_row(&tx, ..) and the version-chain check
PatchRead(c) ==
  /\ conns[c].pc = "begun"
  /\ LET input == conns[c].input[1]
         current_version == patch_current_version(Db, input)
     IN  IF version_chain_ok(current_version, Trim(input.from_version))
         THEN conns' = [conns EXCEPT
                 ![c].pc = "checked",
                 ![c].tx = Some([current_version |-> current_version]),
                 ![c].during = {d \in Connections \ {c} : holds_shared(conns[d])}]
         ELSE ConnFailed(c, "VersionMismatch")
  /\ DbUnchanged
  /\ UNCHANGED <<now, calls, request, result, before>>

\* the statements of the transaction, from the DELETE of the target version
\* to append_catalog_patch_history; they stay private until the commit
PatchWrite(c) ==
  /\ conns[c].pc = "checked"
  /\ IF ~reserved_lock_free(c) THEN ConnFailed(c, "DatabaseBusy")
     ELSE \E out \in {apply_catalog_patch_tx(Db, conns[c].input[1], now,
                                             conns[c].tx[1].current_version)} :
            IF out.ok
            THEN conns' = [conns EXCEPT ![c].pc = "written", ![c].tx = Some(out)]
            ELSE ConnFailed(c, out.error)
  /\ DbUnchanged
  /\ UNCHANGED <<now, calls, request, result, before>>

\* tx.commit() once the other connections' read locks are gone
PatchCommit(c) ==
  /\ conns[c].pc = "written"
  /\ commit_lock_free(c)
  /\ prices' = conns[c].tx[1].db.prices
  /\ printings' = conns[c].tx[1].db.printings
  /\ cards' = conns[c].tx[1].db.cards
  /\ sets' = conns[c].tx[1].db.sets
  /\ syncState' = conns[c].tx[1].db.syncState
  /\ datasetVersions' = conns[c].tx[1].db.datasetVersions
  /\ patches' = conns[c].tx[1].db.patches
  /\ applyHistory' = conns[c].tx[1].db.applyHistory
  /\ conns' = [conns EXCEPT ![c].pc = "committed"]
  /\ UNCHANGED <<now, calls, request, result, before>>

\* tx.commit() gives up (busy timeout) while another connection still reads
PatchCommitBusy(c) ==
  /\ conns[c].pc = "written"
  /\ ~commit_lock_free(c)
  /\ ConnFailed(c, "DatabaseBusy")
  /\ DbUnchanged
  /\ UNCHANGED <<now, calls, request, result, before>>

\* a snapshot applied while no patch is under way
SerialSnapshot ==
  /\ \A c \in Connections : conns[c].pc = "idle"
  /\ ApplySnapshot

ConcurrentNext ==
  \/ SerialSnapshot
  \/ Tick
  \/ \E c \in Connections : PatchBegin(c)
  \/ \E c \in Connections : PatchRead(c)
  \/ \E c \in Connections : PatchWrite(c)
  \/ \E c \in Connections : PatchCommit(c)
  \/ \E c \in Connections : PatchCommitBusy(c)

ConcurrentSpec == Init /\ [][ConcurrentNext]_vars

ConnDone(c) == conns[c].pc \in {"committed", "failed"}

\* the transactions of c and d were open at the same time
Concurrent(c, d) == d \in conns[c].during \/ c \in conns[d].during

\* two finished patch calls whose transactions overlapped, with the same
\* from_version and different to_versions
C32_Conflict(c, d) ==
  /\ c # d /\ ConnDone(c) /\ ConnDone(d) /\ Concurrent(c, d)
  /\ Trim(conns[c].input[1].from_version) = Trim(conns[d].input[1].from_version)
  /\ Trim(conns[c].input[1].to_version) # Trim(conns[d].input[1].to_version)

-----------------------------------------------------------------------------
(* C33 - the stored hash in every committed state *)

\* C33: in every committed state in which the catalog's sync state has a
\* current_version, the stored state_hash is present and is the hash
\* computed over the rows of that version as they stand in the state.
C33_StoredHashIsCurrent ==
  CatalogRow.current_version # None =>
    /\ CatalogRow.state_hash # None
    /\ CatalogRow.state_hash
         = Some(compute_catalog_state_hash(Db, CATALOG_DATASET_DEFAULT))

-----------------------------------------------------------------------------
(* C34 - a patch is applied at most once *)

\* the pointer is as it was unless the step is a successful apply, and the
\* patch of a successful apply_catalog_patch, submitted again to the state
\* the apply left, fails the version-chain check and changes nothing
C34_Step ==
  /\ CatalogRow.current_version' # CatalogRow.current_version =>
       /\ calls' = calls + 1
       /\ result'.op \in ApplyCommands
       /\ result'.ok
  /\ (calls' = calls + 1 /\ result'.op = "apply_catalog_patch" /\ result'.ok) =>
       /\ CatalogRow.current_version = Some(Trim(request'[1].from_version))
       /\ LET again == apply_catalog_patch(Db', request'[1], now)
          IN  /\ ~again.ok
              /\ again.error = "VersionMismatch"
              /\ again.db = Db'

\* C34: the catalog pointer moves only on a successful apply, a patch
\* succeeds only from the version the pointer holds, and a patch that has
\* been applied fails the version-chain check when it is submitted again.
C34_PatchAppliedOnce == [][C34_Step]_vars

-----------------------------------------------------------------------------
(* C35 - patches on a replica without a sync state *)

C35_PatchInputs ==
  {PatchInput(None, from, to, <<RB0>>, <<>>, <<>>, None, None) :
     from \in FromVersions, to \in VersionInputs}

\* C35: on a replica whose catalog has no sync-state row, apply_catalog_patch
\* fails with the version-mismatch error for every non-empty from_version
\* and leaves every table as it was.
C35_NoPatchWithoutState ==
  CATALOG_DATASET_DEFAULT \notin DOMAIN syncState =>
    \A input \in C35_PatchInputs :
      LET out == apply_catalog_patch(Db, input, now)
      IN  /\ ~out.ok
          /\ out.error = "VersionMismatch"
          /\ out.db = Db

-----------------------------------------------------------------------------
(* C36 - the patch path and the snapshot path *)

\* the record set of the target version: the records of the first snapshot,
\* those the patch updates replaced by the patch's record, then the patch's
\* records of other printings
ResultingRecords(records, updated) ==
  [i \in DOMAIN records |->
     IF \E j \in DOMAIN updated :
          ToLower(Trim(updated[j].scryfall_id)) = ToLower(Trim(records[i].scryfall_id))
     THEN updated[CHOOSE j \in DOMAIN updated :
            ToLower(Trim(updated[j].scryfall_id)) = ToLower(Trim(records[i].scryfall_id))]
     ELSE records[i]]
  \o SelectSeq(updated, LAMBDA u :
        ToLower(Trim(u.scryfall_id)) \notin NormalizedIds(records))

\* the updates of a patch: none, a new price for a, a new price for b
C36_Updates == {<<>>, <<RA2>>, <<Rec("b", 2, None, 1, Some("img"))>>}

\* C36: on a replica with no price rows and no current version, a snapshot
\* of v1 followed by a patch v1 -> v2 returns the state hash and the
\* totalRecords that a snapshot of v2 with the resulting record set returns
\* on the same replica, the printings the patch only carried forward
\* included.
C36_PatchAgreesWithSnapshot ==
  (prices = {} /\ CatalogRow.current_version = None) =>
    \A records \in C8_Records, updated \in C36_Updates, t \in now..MaxClock :
      LET first == apply_catalog_snapshot(Db,
                     SnapshotInput(None, "v1", records, None, None), now)
          second == apply_catalog_patch(first.db,
                      PatchInput(None, "v1", "v2", <<>>, updated, <<>>,
                                 None, None), t)
          direct == apply_catalog_snapshot(Db,
                      SnapshotInput(None, "v2",
                        ResultingRecords(records, updated), None, None), t)
      IN  (first.ok /\ second.ok) =>
            /\ direct.ok
            /\ second.dto[1].total_records = direct.dto[1].total_records
            /\ second.dto[1].state_hash = direct.dto[1].state_hash

-----------------------------------------------------------------------------
(* C37 - one market row per printing and version *)

\* C37: in every state each printing has, per sync_version, at most one
\* price row with a tcg_market, and that row is the near-mint nonfoil one;
\* when the catalog has a current version its state hash has one line per
\* printing and count_catalog_records is the number of those lines.
C37_OneMarketRow ==
  /\ \A r \in prices :
       r.tcg_market # None =>
         /\ r.condition_id = Some(CONDITION_NM_ID)
         /\ r.finish_id = Some(FINISH_NONFOIL_ID)
         /\ \A s \in prices :
              (/\ s.printing_id = r.printing_id
               /\ s.sync_version = r.sync_version
               /\ s.tcg_market # None) => s = r
  /\ CatalogRow.current_version # None =>
       LET hash == compute_catalog_state_hash(Db, CATALOG_DATASET_DEFAULT)
       IN  /\ \A i, j \in 2..Len(hash) : hash[i][1] = hash[j][1] => i = j
           /\ count_catalog_records(Db, CATALOG_DATASET_DEFAULT) = Len(hash) - 1

\* printing a has two rows under the current version, the nonfoil one with a
\* tcg_market and a foil one with buylist values only; two printings are
\* hashed
C37_Witness ==
  /\ CatalogRow.current_version # None
  /\ \E r, s \in prices :
       /\ r.printing_id = s.printing_id
       /\ r.sync_version = s.sync_version
       /\ Some(r.sync_version) = CatalogRow.current_version
       /\ r.tcg_market # None /\ s.tcg_market = None /\ s.ck_sell # None
  /\ count_catalog_records(Db, CATALOG_DATASET_DEFAULT) = 2

-----------------------------------------------------------------------------
(* C38 - the sync state after a successful apply *)

\* the state the step leaves answers the sync-state query with the version,
\* the hash and the count of the apply's result, and holds the version
\* record of (dataset, to_version) with the same hash and count
C38_Step ==
  (calls' = calls + 1 /\ result'.op \in ApplyCommands /\ result'.ok) =>
    LET dto == result'.dto[1]
        state == load_catalog_sync_state(Db', dto.dataset)
        id == <<dto.dataset, dto.to_version>>
    IN  /\ state.current_version = Some(dto.to_version)
        /\ state.state_hash = Some(dto.state_hash)
        /\ state.total_records = dto.total_records
        /\ id \in DOMAIN datasetVersions'
        /\ datasetVersions'[id].state_hash = Some(dto.state_hash)
        /\ datasetVersions'[id].record_count = dto.total_records

\* C38: right after a successful apply_catalog_snapshot or
\* apply_catalog_patch the sync-state query returns the result's to_version,
\* state_hash and total_records, and the version record of (dataset,
\* to_version) carries that state_hash and that count as record_count.
C38_SyncStateAfterApply == [][C38_Step]_vars

\* a patch moved the catalog to its to_version with two records; the query
\* and the version record report them
C38_Witness ==
  /\ result.op = "apply_catalog_patch" /\ result.ok
  /\ result.dto[1].total_records = 2
  /\ load_catalog_sync_state(Db, CATALOG_DATASET_DEFAULT).total_records = 2
  /\ <<CATALOG_DATASET_DEFAULT, result.dto[1].to_version>> \in DOMAIN datasetVersions
  /\ datasetVersions[<<CATALOG_DATASET_DEFAULT, result.dto[1].to_version>>].record_count = 2
  /\ result.dto[1].to_version # UnwrapOr(result.dto[1].from_version, "none")

=============================================================================
